---------------------------- MODULE Spec2Model ----------------------------
(***************************************************************************)
(* Model of the key loader and signature engine of addpay-go               *)
(* (src/auth/rsa.go).                                                      *)
(*                                                                         *)
(* Text and byte strings are sequences.  A character is a one-character    *)
(* string; the boundary lines of a PEM container ("-----BEGIN ...-----",   *)
(* "-----END ...-----") are single symbols of such a sequence.  Binary     *)
(* data (DER structures, signatures) are sequences of numbers 0..255.      *)
(*                                                                         *)
(* The Go standard library is modelled at a small scale:                   *)
(*   - base64 is the real algorithm (6-bit groups, '=' padding, newlines   *)
(*     skipped by the decoder);                                            *)
(*   - SHA-256 is a one-byte polynomial digest modulo the prime 251, which *)
(*     like SHA-256 is a function of the bytes alone and which no          *)
(*     substitution of a single byte leaves unchanged;                     *)
(*   - an RSA key is a pair of byte-wise inverse permutations (adding d,   *)
(*     adding e, with d + e = 256) applied to an encoded message of the    *)
(*     key's modulus length; PKCS#1 v1.5 encoding keeps its layout and     *)
(*     its 11 bytes of overhead;                                           *)
(*   - a DER structure is a tag byte, an algorithm byte where the real     *)
(*     structure carries an algorithm identifier, and the number of a key. *)
(***************************************************************************)
EXTENDS Integers, Sequences, FiniteSets, TLC

VARIABLES pc, auth, call, signLog, client, built, inflight, http

vars == <<pc, auth, call, signLog, client, built, inflight, http>>

-----------------------------------------------------------------------------
(* Bounds of the model *)

\* longest payload handed to Sign and Verify
MaxPayloadLen == 2

\* longest run of whitespace put before and after key material
MaxPad == 1

\* number of Sign results remembered for comparison with later calls
MaxLog == 2

\* longest plaintext handed to Encrypt
MaxPlainLen == 3

\* number of concurrent callers of one engine
NumCallers == 2

-----------------------------------------------------------------------------
(* Characters.  The symbol "BACKTICK" holds the place of character 96. *)

Printable ==
  << " ", "!", "\"", "#", "$", "%", "&", "'", "(", ")", "*", "+", ",", "-",
     ".", "/", "0", "1", "2", "3", "4", "5", "6", "7", "8", "9", ":", ";",
     "<", "=", ">", "?", "@", "A", "B", "C", "D", "E", "F", "G", "H", "I",
     "J", "K", "L", "M", "N", "O", "P", "Q", "R", "S", "T", "U", "V", "W",
     "X", "Y", "Z", "[", "\\", "]", "^", "_", "BACKTICK", "a", "b", "c", "d", "e",
     "f", "g", "h", "i", "j", "k", "l", "m", "n", "o", "p", "q", "r", "s",
     "t", "u", "v", "w", "x", "y", "z", "{", "|", "}", "~" >>

PrintableSet == { Printable[i] : i \in 1..Len(Printable) }

\* the byte value of a character (ASCII)
OrdTable ==
  [ c \in PrintableSet \cup {"\t", "\n", "\r"} |->
      IF c = "\t" THEN 9
      ELSE IF c = "\n" THEN 10
      ELSE IF c = "\r" THEN 13
      ELSE 31 + (CHOOSE i \in 1..Len(Printable) : Printable[i] = c) ]

Ord(c) == OrdTable[c]

\* unicode.IsSpace on the characters of the model
IsSpace(c) == c \in {" ", "\t", "\n", "\r"}

RECURSIVE TrimLeft(_)
TrimLeft(s) ==
  IF s # <<>> /\ IsSpace(Head(s)) THEN TrimLeft(Tail(s)) ELSE s

RECURSIVE TrimRight(_)
TrimRight(s) ==
  IF s # <<>> /\ IsSpace(s[Len(s)])
  THEN TrimRight(SubSeq(s, 1, Len(s) - 1))
  ELSE s

TrimSpace(s) == TrimRight(TrimLeft(s))

-----------------------------------------------------------------------------
(* encoding/base64, StdEncoding *)

B64Alphabet == SubSeq(Printable, 34, 59) \o SubSeq(Printable, 66, 91)
               \o SubSeq(Printable, 17, 26) \o <<"+", "/">>

B64Set == { B64Alphabet[i] : i \in 1..Len(B64Alphabet) }

B64Value == [ c \in B64Set |-> (CHOOSE i \in 1..64 : B64Alphabet[i] = c) - 1 ]

B64Char(v) == B64Alphabet[v + 1]

RECURSIVE EncodeToString(_)
EncodeToString(b) ==
  IF Len(b) = 0 THEN <<>>
  ELSE IF Len(b) = 1 THEN
    << B64Char(b[1] \div 4), B64Char((b[1] % 4) * 16), "=", "=" >>
  ELSE IF Len(b) = 2 THEN
    << B64Char(b[1] \div 4), B64Char((b[1] % 4) * 16 + b[2] \div 16),
       B64Char((b[2] % 16) * 4), "=" >>
  ELSE
    << B64Char(b[1] \div 4), B64Char((b[1] % 4) * 16 + b[2] \div 16),
       B64Char((b[2] % 16) * 4 + b[3] \div 64), B64Char(b[3] % 64) >>
    \o EncodeToString(SubSeq(b, 4, Len(b)))

\* the decoder skips carriage returns and newlines
RECURSIVE StripNewlines(_)
StripNewlines(s) ==
  IF s = <<>> THEN <<>>
  ELSE IF Head(s) \in {"\n", "\r"} THEN StripNewlines(Tail(s))
  ELSE <<Head(s)>> \o StripNewlines(Tail(s))

\* one group of four characters; the last group may end in "=" or "=="
DecodeQuantum(q, last) ==
  LET v(i) == B64Value[q[i]]
  IN  IF \A i \in 1..4 : q[i] \in B64Set THEN
        [ok |-> TRUE,
         bytes |-> << v(1) * 4 + v(2) \div 16,
                      (v(2) % 16) * 16 + v(3) \div 4,
                      (v(3) % 4) * 64 + v(4) >>]
      ELSE IF last /\ q[1] \in B64Set /\ q[2] \in B64Set /\ q[3] \in B64Set
              /\ q[4] = "=" THEN
        [ok |-> TRUE,
         bytes |-> << v(1) * 4 + v(2) \div 16,
                      (v(2) % 16) * 16 + v(3) \div 4 >>]
      ELSE IF last /\ q[1] \in B64Set /\ q[2] \in B64Set /\ q[3] = "="
              /\ q[4] = "=" THEN
        [ok |-> TRUE, bytes |-> << v(1) * 4 + v(2) \div 16 >>]
      ELSE [ok |-> FALSE, bytes |-> <<>>]

RECURSIVE DecodeQuanta(_)
DecodeQuanta(s) ==
  IF s = <<>> THEN [ok |-> TRUE, bytes |-> <<>>]
  ELSE IF Len(s) < 4 THEN [ok |-> FALSE, bytes |-> <<>>]
  ELSE LET q == DecodeQuantum(SubSeq(s, 1, 4), Len(s) = 4)
           r == DecodeQuanta(SubSeq(s, 5, Len(s)))
       IN  IF q.ok /\ r.ok
           THEN [ok |-> TRUE, bytes |-> q.bytes \o r.bytes]
           ELSE [ok |-> FALSE, bytes |-> <<>>]

\* base64.StdEncoding.DecodeString: ok = FALSE is a CorruptInputError
DecodeString(s) == DecodeQuanta(StripNewlines(s))

-----------------------------------------------------------------------------
(* crypto/sha256 at the scale of the model: one byte *)

\* A byte takes the digest h to (h * 31 + byte) % 251.  Digest is what the
\* bytes of the data, one after the other, make of a digest h: the pair
\* <<a, b>> stands for (h * a + b) % 251
RECURSIVE Digest(_)
Digest(data) ==
  IF data = <<>> THEN <<1, 0>>
  ELSE IF Len(data) = 1 THEN <<31, Ord(data[1]) % 251>>
  ELSE LET half == Len(data) \div 2
           first == Digest(SubSeq(data, 1, half))
           second == Digest(SubSeq(data, half + 1, Len(data)))
       IN  << (first[1] * second[1]) % 251,
              (first[2] * second[1] + second[2]) % 251 >>

\* the digest of the data, from the digest 7 of no data
Sum256(data) == (7 * Digest(data)[1] + Digest(data)[2]) % 251

-----------------------------------------------------------------------------
(* crypto/rsa at the scale of the model *)

\* The RSA keys of the model: modulus length in bytes, private exponent d,
\* public exponent e.  Key 3 is too short to sign a SHA-256 digest.
RsaKeys ==
  << [size |-> 13, d |-> 101, e |-> 155],
     [size |-> 13, d |-> 57,  e |-> 199],
     [size |-> 12, d |-> 33,  e |-> 223] >>

KeyIds == 1..Len(RsaKeys)

NoKey == [alg |-> "nil", size |-> 0, d |-> 0, e |-> 0]

RsaPrivateKey(i) ==
  [alg |-> "RSA", size |-> RsaKeys[i].size, d |-> RsaKeys[i].d,
   e |-> RsaKeys[i].e]

RsaPublicKey(i) ==
  [alg |-> "RSA", size |-> RsaKeys[i].size, d |-> 0, e |-> RsaKeys[i].e]

\* a key of another algorithm, as the x509 parsers return it
OtherKey(alg) == [alg |-> alg, size |-> 0, d |-> 0, e |-> 0]

\* the permutation of byte strings a key exponent x stands for
RsaOp(x, m) == [i \in 1..Len(m) |-> (m[i] + x) % 256]

Repeat(b, n) == [i \in 1..n |-> b]

\* EMSA-PKCS1-v1_5: 00 01 FF..FF 00 || DigestInfo prefix || digest
EmsaPkcs1v15(hash, k) ==
  IF k < 2 + 11 THEN [ok |-> FALSE, em |-> <<>>]
  ELSE [ok |-> TRUE,
        em |-> <<0, 1>> \o Repeat(255, k - 2 - 3) \o <<0>> \o <<48, hash>>]

\* a signature that keeps the random value it was blinded with
SignPKCS1v15_Randomized(random, priv, hash) ==
  LET enc == EmsaPkcs1v15(hash, priv.size)
      blinded == RsaOp(random, enc.em)
  IN  IF ~enc.ok THEN [ok |-> FALSE, sig |-> <<>>]
      ELSE [ok |-> TRUE, sig |-> RsaOp(priv.d, blinded)]

\* rsa.SignPKCS1v15(random, priv, crypto.SHA256, hash): the random value
\* blinds the private-key operation and is removed again
SignPKCS1v15(random, priv, hash) ==
  LET enc == EmsaPkcs1v15(hash, priv.size)
      blinded == RsaOp(random, enc.em)
      signed == RsaOp(priv.d, blinded)
  IN  IF ~enc.ok THEN [ok |-> FALSE, sig |-> <<>>]
      ELSE [ok |-> TRUE, sig |-> RsaOp(256 - random, signed)]

\* rsa.VerifyPKCS1v15(pub, crypto.SHA256, hash, sig): TRUE when it returns nil
VerifyPKCS1v15(pub, hash, sig) ==
  LET enc == EmsaPkcs1v15(hash, pub.size)
  IN  /\ enc.ok
      /\ Len(sig) = pub.size
      /\ RsaOp(pub.e, sig) = enc.em

\* nonZeroRandomBytes: a zero byte is drawn again, and the reader yields the
\* next value
NonZeroRandom(random) == IF random % 256 = 0 THEN 1 ELSE random % 256

\* rsa.EncryptPKCS1v15(random, pub, msg): 00 02 PS 00 || msg under the public
\* key, PS being non-zero random bytes; ok = FALSE is ErrMessageTooLong
EncryptPKCS1v15(random, pub, msg) ==
  LET k == pub.size
      em == <<0, 2>> \o Repeat(NonZeroRandom(random), k - Len(msg) - 3)
            \o <<0>> \o msg
  IN  IF Len(msg) > k - 11 THEN [ok |-> FALSE, out |-> <<>>]
      ELSE [ok |-> TRUE, out |-> RsaOp(pub.e, em)]

\* rsa.DecryptPKCS1v15(random, priv, ciphertext): the random value blinds the
\* private-key operation and is removed again; the message follows the first
\* zero byte after a padding of at least 8 bytes; ok = FALSE is ErrDecryption
DecryptPKCS1v15(random, priv, ciphertext) ==
  LET k == priv.size
      blinded == RsaOp(random, ciphertext)
      em == RsaOp(256 - random, RsaOp(priv.d, blinded))
      zeros == { i \in 3..k : em[i] = 0 }
      index == CHOOSE i \in zeros : \A j \in zeros : i <= j
  IN  IF k < 11 \/ Len(ciphertext) # k THEN [ok |-> FALSE, out |-> <<>>]
      ELSE IF em[1] # 0 \/ em[2] # 2 \/ zeros = {} THEN
        [ok |-> FALSE, out |-> <<>>]
      ELSE IF index < 2 + 8 + 1 THEN [ok |-> FALSE, out |-> <<>>]
      ELSE [ok |-> TRUE, out |-> SubSeq(em, index + 1, k)]

-----------------------------------------------------------------------------
(* crypto/x509 and encoding/pem at the scale of the model *)

\* An error is the chain of its messages, outermost first; nil is the empty
\* chain.
Nil == <<>>

\* fmt.Errorf(msg + ": %w", err)
Wrap(msg, err) == <<msg>> \o err

ErrBase64 == <<"illegal base64 data">>

\* the error of the ASN.1 decoder
ErrX509 == <<"x509: failed to parse key">>

Algorithms == <<"RSA", "ECDSA", "DSA", "X448">>

AlgByte(alg) == CHOOSE i \in 1..Len(Algorithms) : Algorithms[i] = alg

MarshalPKCS1PrivateKey(i) == <<1, i>>

MarshalPKCS8PrivateKey(alg, i) == <<2, AlgByte(alg), i>>

MarshalPKIXPublicKey(alg, i) == <<3, AlgByte(alg), i>>

MarshalPKCS1PublicKey(i) == <<4, i>>

\* the error of a parser that is handed the structure of another parser
UseInstead(parser) ==
  <<"x509: failed to parse key (use " \o parser \o " instead for this key format)">>

ErrUnknownAlgorithm == <<"x509: unknown key algorithm">>

\* each parser returns its own error: for a structure that another parser
\* reads it names that parser, for a key of an algorithm it does not know it
\* says so, and for anything else it is the error of the ASN.1 decoder
ParsePKCS1PrivateKey(der) ==
  IF Len(der) = 2 /\ der[1] = 1 /\ der[2] \in KeyIds
  THEN [ok |-> TRUE, key |-> RsaPrivateKey(der[2]), err |-> Nil]
  ELSE IF Len(der) = 3 /\ der[1] = 2
  THEN [ok |-> FALSE, key |-> NoKey, err |-> UseInstead("ParsePKCS8PrivateKey")]
  ELSE [ok |-> FALSE, key |-> NoKey, err |-> ErrX509]

\* RSA and ECDSA keys are returned; a DSA or X448 key is an unknown algorithm
ParsePKCS8PrivateKey(der) ==
  IF Len(der) = 3 /\ der[1] = 2 /\ der[2] \in 1..Len(Algorithms)
     /\ der[3] \in KeyIds
  THEN IF Algorithms[der[2]] = "RSA"
       THEN [ok |-> TRUE, key |-> RsaPrivateKey(der[3]), err |-> Nil]
       ELSE IF Algorithms[der[2]] = "ECDSA"
       THEN [ok |-> TRUE, key |-> OtherKey("ECDSA"), err |-> Nil]
       ELSE [ok |-> FALSE, key |-> NoKey, err |-> ErrUnknownAlgorithm]
  ELSE IF Len(der) = 2 /\ der[1] = 1
  THEN [ok |-> FALSE, key |-> NoKey, err |-> UseInstead("ParsePKCS1PrivateKey")]
  ELSE [ok |-> FALSE, key |-> NoKey, err |-> ErrX509]

\* RSA, ECDSA and DSA keys are returned; an X448 key is an unknown algorithm
ParsePKIXPublicKey(der) ==
  IF Len(der) = 3 /\ der[1] = 3 /\ der[2] \in 1..Len(Algorithms)
     /\ der[3] \in KeyIds
  THEN IF Algorithms[der[2]] = "RSA"
       THEN [ok |-> TRUE, key |-> RsaPublicKey(der[3]), err |-> Nil]
       ELSE IF Algorithms[der[2]] \in {"ECDSA", "DSA"}
       THEN [ok |-> TRUE, key |-> OtherKey(Algorithms[der[2]]), err |-> Nil]
       ELSE [ok |-> FALSE, key |-> NoKey, err |-> ErrUnknownAlgorithm]
  ELSE IF Len(der) = 2 /\ der[1] = 4
  THEN [ok |-> FALSE, key |-> NoKey, err |-> UseInstead("ParsePKCS1PublicKey")]
  ELSE [ok |-> FALSE, key |-> NoKey, err |-> ErrX509]

PemTypes == {"RSA PRIVATE KEY", "PRIVATE KEY", "PUBLIC KEY", "RSA PUBLIC KEY"}

BeginLine(type) == "-----BEGIN " \o type \o "-----"

EndLine(type) == "-----END " \o type \o "-----"

\* a header line cut short: it starts with -----BEGIN and is no PEM line
BrokenBeginLine == "-----BEGIN"

IsBeginLine(c) == \E type \in PemTypes : c = BeginLine(type)

\* strings.HasPrefix(s, "-----BEGIN")
HasPemPrefix(s) == s # <<>> /\ (IsBeginLine(s[1]) \/ s[1] = BrokenBeginLine)

PemTypeOf(c) == CHOOSE type \in PemTypes : c = BeginLine(type)

RECURSIVE RemoveSpacesAndTabs(_)
RemoveSpacesAndTabs(s) ==
  IF s = <<>> THEN <<>>
  ELSE IF Head(s) \in {" ", "\t"} THEN RemoveSpacesAndTabs(Tail(s))
  ELSE <<Head(s)>> \o RemoveSpacesAndTabs(Tail(s))

\* pem.Decode: the block starts at a BEGIN line that opens the data or
\* follows a newline, and ends at the END line of the same type; its body is
\* base64.  ok = FALSE is the nil block.
PemDecode(data) ==
  LET starts == { i \in 1..Len(data) :
                    /\ IsBeginLine(data[i])
                    /\ (i = 1 \/ data[i - 1] = "\n") }
  IN  IF starts = {} THEN [ok |-> FALSE, bytes |-> <<>>]
      ELSE
        LET b == CHOOSE i \in starts : \A j \in starts : i <= j
            ends == { i \in (b + 1)..Len(data) :
                        data[i] = EndLine(PemTypeOf(data[b])) }
        IN  IF ends = {} THEN [ok |-> FALSE, bytes |-> <<>>]
            ELSE
              LET e == CHOOSE i \in ends : \A j \in ends : i <= j
                  body == DecodeString(
                            RemoveSpacesAndTabs(SubSeq(data, b + 1, e - 1)))
              IN  IF body.ok THEN [ok |-> TRUE, bytes |-> body.bytes]
                  ELSE [ok |-> FALSE, bytes |-> <<>>]

\* pem.EncodeToMemory
PemEncode(type, der) ==
  <<BeginLine(type), "\n">> \o EncodeToString(der)
  \o <<"\n", EndLine(type), "\n">>


-----------------------------------------------------------------------------
(* src/auth/rsa.go *)

\* parsePEMPrivateKey as it would be if it went on to the PKCS#1 attempt
\* whenever the PKCS#8 attempt had not given an RSA key
parsePEMPrivateKey_RetriesNonRsa(privateKeyPEM) ==
  LET block == PemDecode(privateKeyPEM)
      pkcs8 == ParsePKCS8PrivateKey(block.bytes)
      pkcs1 == ParsePKCS1PrivateKey(block.bytes)
  IN  IF ~block.ok THEN
        [key |-> NoKey, err |-> <<"failed to decode PEM block">>]
      ELSE IF pkcs8.ok /\ pkcs8.key.alg = "RSA" THEN
        [key |-> pkcs8.key, err |-> Nil]
      ELSE IF ~pkcs1.ok THEN
        [key |-> NoKey, err |-> Wrap("failed to parse private key", pkcs1.err)]
      ELSE [key |-> pkcs1.key, err |-> Nil]

\* parsePEMPrivateKey as it would be without the PKCS#1 attempt
parsePEMPrivateKey_Pkcs8Only(privateKeyPEM) ==
  LET block == PemDecode(privateKeyPEM)
      pkcs8 == ParsePKCS8PrivateKey(block.bytes)
  IN  IF ~block.ok THEN
        [key |-> NoKey, err |-> <<"failed to decode PEM block">>]
      ELSE IF pkcs8.ok THEN
        IF pkcs8.key.alg # "RSA"
        THEN [key |-> NoKey, err |-> <<"key is not an RSA private key">>]
        ELSE [key |-> pkcs8.key, err |-> Nil]
      ELSE [key |-> NoKey, err |-> Wrap("failed to parse private key", pkcs8.err)]


parsePEMPrivateKey(privateKeyPEM) ==
  LET block == PemDecode(privateKeyPEM)
      pkcs8 == ParsePKCS8PrivateKey(block.bytes)
      pkcs1 == ParsePKCS1PrivateKey(block.bytes)
  IN  IF ~block.ok THEN
        [key |-> NoKey, err |-> <<"failed to decode PEM block">>]
      ELSE IF pkcs8.ok THEN
        IF pkcs8.key.alg # "RSA"
        THEN [key |-> NoKey, err |-> <<"key is not an RSA private key">>]
        ELSE [key |-> pkcs8.key, err |-> Nil]
      ELSE IF ~pkcs1.ok THEN
        [key |-> NoKey, err |-> Wrap("failed to parse private key", pkcs1.err)]
      ELSE [key |-> pkcs1.key, err |-> Nil]

\* parseBase64PKCS8PrivateKey as it would be without the RSA type assertion
parseBase64PKCS8PrivateKey_AnyKey(base64Key) ==
  LET keyBytes == DecodeString(base64Key)
      pkcs1 == ParsePKCS1PrivateKey(keyBytes.bytes)
      pkcs8 == ParsePKCS8PrivateKey(keyBytes.bytes)
  IN  IF ~keyBytes.ok THEN
        [key |-> NoKey,
         err |-> Wrap("failed to decode base64 private key", ErrBase64)]
      ELSE IF pkcs1.ok THEN [key |-> pkcs1.key, err |-> Nil]
      ELSE IF ~pkcs8.ok THEN
        [key |-> NoKey,
         err |-> Wrap("failed to parse private key (tried both PKCS1 and PKCS8)",
                      pkcs8.err)]
      ELSE [key |-> pkcs8.key, err |-> Nil]


parseBase64PKCS8PrivateKey(base64Key) ==
  LET keyBytes == DecodeString(base64Key)
      pkcs1 == ParsePKCS1PrivateKey(keyBytes.bytes)
      pkcs8 == ParsePKCS8PrivateKey(keyBytes.bytes)
  IN  IF ~keyBytes.ok THEN
        [key |-> NoKey,
         err |-> Wrap("failed to decode base64 private key", ErrBase64)]
      ELSE IF pkcs1.ok THEN [key |-> pkcs1.key, err |-> Nil]
      ELSE IF ~pkcs8.ok THEN
        [key |-> NoKey,
         err |-> Wrap("failed to parse private key (tried both PKCS1 and PKCS8)",
                      pkcs8.err)]
      ELSE IF pkcs8.key.alg # "RSA" THEN
        [key |-> NoKey, err |-> <<"key is not an RSA private key">>]
      ELSE [key |-> pkcs8.key, err |-> Nil]

\* parsePrivateKey as it would be without the check for empty input
parsePrivateKey_NoEmptyCheck(privateKeyData) ==
  LET keyStr == TrimSpace(privateKeyData)
  IN  IF HasPemPrefix(keyStr) THEN parsePEMPrivateKey(privateKeyData)
      ELSE parseBase64PKCS8PrivateKey(keyStr)


parsePrivateKey(privateKeyData) ==
  LET keyStr == TrimSpace(privateKeyData)
  IN  IF Len(privateKeyData) = 0 THEN
        [key |-> NoKey, err |-> <<"private key is empty">>]
      ELSE IF HasPemPrefix(keyStr) THEN parsePEMPrivateKey(privateKeyData)
      ELSE parseBase64PKCS8PrivateKey(keyStr)

\* parsePEMPublicKey as it would be if it reported a key of another
\* algorithm as a key that fails to parse
parsePEMPublicKey_OneMessage(publicKeyPEM) ==
  LET block == PemDecode(publicKeyPEM)
      publicKey == ParsePKIXPublicKey(block.bytes)
  IN  IF ~block.ok THEN
        [key |-> NoKey, err |-> <<"failed to decode PEM block">>]
      ELSE IF ~publicKey.ok \/ publicKey.key.alg # "RSA" THEN
        [key |-> NoKey,
         err |-> Wrap("failed to parse public key",
                      IF publicKey.ok THEN ErrX509 ELSE publicKey.err)]
      ELSE [key |-> publicKey.key, err |-> Nil]

parsePEMPublicKey(publicKeyPEM) ==
  LET block == PemDecode(publicKeyPEM)
      publicKey == ParsePKIXPublicKey(block.bytes)
  IN  IF ~block.ok THEN
        [key |-> NoKey, err |-> <<"failed to decode PEM block">>]
      ELSE IF ~publicKey.ok THEN
        [key |-> NoKey, err |-> Wrap("failed to parse public key", publicKey.err)]
      ELSE IF publicKey.key.alg # "RSA" THEN
        [key |-> NoKey, err |-> <<"key is not an RSA public key">>]
      ELSE [key |-> publicKey.key, err |-> Nil]

\* parseBase64X509PublicKey as it would be with a PKCS#1 attempt after the
\* SubjectPublicKeyInfo attempt
parseBase64X509PublicKey_Pkcs1Fallback(base64Key) ==
  LET keyBytes == DecodeString(base64Key)
      key == ParsePKIXPublicKey(keyBytes.bytes)
      der == keyBytes.bytes
  IN  IF ~keyBytes.ok THEN
        [key |-> NoKey,
         err |-> Wrap("failed to decode base64 public key", ErrBase64)]
      ELSE IF ~key.ok THEN
        IF Len(der) = 2 /\ der[1] = 4 /\ der[2] \in KeyIds
        THEN [key |-> RsaPublicKey(der[2]), err |-> Nil]
        ELSE [key |-> NoKey,
              err |-> Wrap("failed to parse X.509 public key", key.err)]
      ELSE IF key.key.alg # "RSA" THEN
        [key |-> NoKey, err |-> <<"key is not an RSA public key">>]
      ELSE [key |-> key.key, err |-> Nil]

parseBase64X509PublicKey(base64Key) ==
  LET keyBytes == DecodeString(base64Key)
      key == ParsePKIXPublicKey(keyBytes.bytes)
  IN  IF ~keyBytes.ok THEN
        [key |-> NoKey,
         err |-> Wrap("failed to decode base64 public key", ErrBase64)]
      ELSE IF ~key.ok THEN
        [key |-> NoKey,
         err |-> Wrap("failed to parse X.509 public key", key.err)]
      ELSE IF key.key.alg # "RSA" THEN
        [key |-> NoKey, err |-> <<"key is not an RSA public key">>]
      ELSE [key |-> key.key, err |-> Nil]

parsePublicKey(publicKeyData) ==
  LET keyStr == TrimSpace(publicKeyData)
  IN  IF Len(publicKeyData) = 0 THEN
        [key |-> NoKey, err |-> <<"public key is empty">>]
      ELSE IF HasPemPrefix(keyStr) THEN parsePEMPublicKey(publicKeyData)
      ELSE parseBase64X509PublicKey(keyStr)

\* the zero value RSAAuth{}
ZeroAuth == [privateKey |-> NoKey, publicKey |-> NoKey]

\* NewRSAAuth as it would be if it loaded the public key first
NewRSAAuth_PublicFirst(privateKeyPEM, publicKeyPEM) ==
  LET private == parsePrivateKey(privateKeyPEM)
      public == parsePublicKey(publicKeyPEM)
  IN  IF public.err # Nil THEN
        [auth |-> ZeroAuth,
         err |-> Wrap("failed to parse public key", public.err)]
      ELSE IF private.err # Nil THEN
        [auth |-> ZeroAuth,
         err |-> Wrap("failed to parse private key", private.err)]
      ELSE [auth |-> [privateKey |-> private.key, publicKey |-> public.key],
            err |-> Nil]

\* NewRSAAuth as it would be if it refused two keys that are not the halves
\* of one pair
NewRSAAuth_ChecksPair(privateKeyPEM, publicKeyPEM) ==
  LET private == parsePrivateKey(privateKeyPEM)
      public == parsePublicKey(publicKeyPEM)
  IN  IF private.err # Nil THEN
        [auth |-> ZeroAuth,
         err |-> Wrap("failed to parse private key", private.err)]
      ELSE IF public.err # Nil THEN
        [auth |-> ZeroAuth,
         err |-> Wrap("failed to parse public key", public.err)]
      ELSE IF private.key.d + public.key.e # 256 THEN
        [auth |-> ZeroAuth, err |-> <<"keys do not match">>]
      ELSE [auth |-> [privateKey |-> private.key, publicKey |-> public.key],
            err |-> Nil]

\* NewRSAAuth as it would be if it kept the private key when the public key
\* fails to load
NewRSAAuth_KeepsPrivate(privateKeyPEM, publicKeyPEM) ==
  LET private == parsePrivateKey(privateKeyPEM)
      public == parsePublicKey(publicKeyPEM)
  IN  IF private.err # Nil THEN
        [auth |-> ZeroAuth,
         err |-> Wrap("failed to parse private key", private.err)]
      ELSE IF public.err # Nil THEN
        [auth |-> [privateKey |-> private.key, publicKey |-> NoKey],
         err |-> Wrap("failed to parse public key", public.err)]
      ELSE [auth |-> [privateKey |-> private.key, publicKey |-> public.key],
            err |-> Nil]


NewRSAAuth(privateKeyPEM, publicKeyPEM) ==
  LET private == parsePrivateKey(privateKeyPEM)
      public == parsePublicKey(publicKeyPEM)
  IN  IF private.err # Nil THEN
        [auth |-> ZeroAuth,
         err |-> Wrap("failed to parse private key", private.err)]
      ELSE IF public.err # Nil THEN
        [auth |-> ZeroAuth,
         err |-> Wrap("failed to parse public key", public.err)]
      ELSE [auth |-> [privateKey |-> private.key, publicKey |-> public.key],
            err |-> Nil]

\* Sign as it would be with a signature scheme that keeps its random value
Sign_Randomized(r, data, random) ==
  LET hash == Sum256(data)
      signature == SignPKCS1v15_Randomized(random, r.privateKey, hash)
  IN  IF ~signature.ok
      THEN [out |-> <<>>,
            err |-> Wrap("failed to sign data", <<"crypto/rsa: message too long for RSA key size">>)]
      ELSE [out |-> EncodeToString(signature.sig), err |-> Nil]

\* Sign as it would be with an encoding that leaves out the padding
Sign_NoPadding(r, data, random) ==
  LET hash == Sum256(data)
      signature == SignPKCS1v15(random, r.privateKey, hash)
      encoded == EncodeToString(signature.sig)
  IN  IF ~signature.ok
      THEN [out |-> <<>>,
            err |-> Wrap("failed to sign data", <<"crypto/rsa: message too long for RSA key size">>)]
      ELSE [out |-> SelectSeq(encoded, LAMBDA c : c # "="), err |-> Nil]

\* Sign; random is what rand.Reader yields during the call
Sign(r, data, random) ==
  LET hash == Sum256(data)
      signature == SignPKCS1v15(random, r.privateKey, hash)
  IN  IF ~signature.ok
      THEN [out |-> <<>>,
            err |-> Wrap("failed to sign data", <<"crypto/rsa: message too long for RSA key size">>)]
      ELSE [out |-> EncodeToString(signature.sig), err |-> Nil]

\* Verify as it would be if it checked the signature against no payload
Verify_IgnoresPayload(r, data, signature) ==
  LET sig == DecodeString(signature)
  IN  IF ~sig.ok THEN Wrap("failed to decode signature", ErrBase64)
      ELSE IF Len(sig.bytes) # r.publicKey.size
      THEN Wrap("signature verification failed",
                <<"crypto/rsa: verification error">>)
      ELSE Nil

\* Verify as it would be if it reported every failure as a failed check
Verify_OneErrorKind(r, data, signature) ==
  LET sig == DecodeString(signature)
      hash == Sum256(data)
  IN  IF ~sig.ok \/ ~VerifyPKCS1v15(r.publicKey, hash, sig.bytes)
      THEN Wrap("signature verification failed",
                <<"crypto/rsa: verification error">>)
      ELSE Nil


Verify(r, data, signature) ==
  LET sig == DecodeString(signature)
      hash == Sum256(data)
  IN  IF ~sig.ok THEN Wrap("failed to decode signature", ErrBase64)
      ELSE IF ~VerifyPKCS1v15(r.publicKey, hash, sig.bytes)
      THEN Wrap("signature verification failed",
                <<"crypto/rsa: verification error">>)
      ELSE Nil


ErrMessageTooLong == <<"crypto/rsa: message too long for RSA key size">>

ErrDecryption == <<"crypto/rsa: decryption error">>

\* Encrypt as it would be if it cut an oversized plaintext down to the bound
Encrypt_Truncates(r, data, random) ==
  LET bound == r.publicKey.size - 11
      cut == IF Len(data) > bound /\ bound >= 0
             THEN SubSeq(data, 1, bound) ELSE data
      encrypted == EncryptPKCS1v15(random, r.publicKey, cut)
  IN  IF ~encrypted.ok
      THEN [out |-> <<>>, err |-> Wrap("failed to encrypt data", ErrMessageTooLong)]
      ELSE [out |-> EncodeToString(encrypted.out), err |-> Nil]

\* Encrypt; random is what rand.Reader yields during the call
Encrypt(r, data, random) ==
  LET encrypted == EncryptPKCS1v15(random, r.publicKey, data)
  IN  IF ~encrypted.ok
      THEN [out |-> <<>>, err |-> Wrap("failed to encrypt data", ErrMessageTooLong)]
      ELSE [out |-> EncodeToString(encrypted.out), err |-> Nil]

\* Decrypt as it would be if it returned the encoded message with its padding
Decrypt_KeepsPadding(r, encryptedData, random) ==
  LET data == DecodeString(encryptedData)
      decrypted == DecryptPKCS1v15(random, r.privateKey, data.bytes)
  IN  IF ~data.ok
      THEN [out |-> <<>>, err |-> Wrap("failed to decode encrypted data", ErrBase64)]
      ELSE IF ~decrypted.ok
      THEN [out |-> <<>>, err |-> Wrap("failed to decrypt data", ErrDecryption)]
      ELSE [out |-> RsaOp(r.privateKey.d, data.bytes), err |-> Nil]

\* Decrypt; random is what rand.Reader yields during the call
Decrypt(r, encryptedData, random) ==
  LET data == DecodeString(encryptedData)
      decrypted == DecryptPKCS1v15(random, r.privateKey, data.bytes)
  IN  IF ~data.ok
      THEN [out |-> <<>>, err |-> Wrap("failed to decode encrypted data", ErrBase64)]
      ELSE IF ~decrypted.ok
      THEN [out |-> <<>>, err |-> Wrap("failed to decrypt data", ErrDecryption)]
      ELSE [out |-> decrypted.out, err |-> Nil]

-----------------------------------------------------------------------------
(* Parameter maps.  A value of type interface{} is a record: t is its      *)
(* dynamic type, s its string and n its number (a bool holds 0 or 1).      *)

StringValue(s) == [t |-> "string", s |-> s, n |-> 0]

IntValue(n) == [t |-> "int", s |-> <<>>, n |-> n]

BoolValue(b) == [t |-> "bool", s |-> <<>>, n |-> IF b THEN 1 ELSE 0]

NilValue == [t |-> "nil", s |-> <<>>, n |-> 0]

Digits == SubSeq(Printable, 17, 26)

\* strconv.Itoa
RECURSIVE Itoa(_)
Itoa(n) ==
  IF n < 0 THEN <<"-">> \o Itoa(0 - n)
  ELSE IF n < 10 THEN <<Digits[n + 1]>>
  ELSE Itoa(n \div 10) \o <<Digits[(n % 10) + 1]>>

\* fmt.Sprintf("%v", value)
Sprintf(value) ==
  IF value.t = "string" THEN value.s
  ELSE IF value.t = "int" THEN Itoa(value.n)
  ELSE IF value.t = "bool" THEN
    IF value.n = 1 THEN <<"t", "r", "u", "e">> ELSE <<"f", "a", "l", "s", "e">>
  ELSE <<"<", "n", "i", "l", ">">>

KeySign == <<"s", "i", "g", "n">>

\* the orders in which a range loop may visit the keys of a map
RECURSIVE Orders(_)
Orders(keys) ==
  IF keys = {} THEN {<<>>}
  ELSE UNION { { <<k>> \o o : o \in Orders(keys \ {k}) } : k \in keys }

EmptyMap == [k \in {} |-> <<>>]

\* filterParameters as it would be if it kept the entry of the key sign
filterStep_KeepsSign(params, key, filtered) ==
  LET value == params[key]
      strValue == Sprintf(value)
  IN  IF value.t = "nil" THEN filtered
      ELSE IF strValue # <<>> /\ strValue # <<"0">>
      THEN [k \in DOMAIN filtered \cup {key} |->
              IF k = key THEN strValue ELSE filtered[k]]
      ELSE filtered

\* filterParameters as it would be if it dropped every value written with
\* zeros only
filterStep_NumericZero(params, key, filtered) ==
  LET value == params[key]
      strValue == Sprintf(value)
  IN  IF key = KeySign \/ value.t = "nil" THEN filtered
      ELSE IF \E i \in 1..Len(strValue) : strValue[i] # "0"
      THEN [k \in DOMAIN filtered \cup {key} |->
              IF k = key THEN strValue ELSE filtered[k]]
      ELSE filtered

\* filterParameters as it would be without the test for nil
filterStep_NilStringified(params, key, filtered) ==
  LET value == params[key]
      strValue == Sprintf(value)
  IN  IF key = KeySign THEN filtered
      ELSE IF strValue # <<>> /\ strValue # <<"0">>
      THEN [k \in DOMAIN filtered \cup {key} |->
              IF k = key THEN strValue ELSE filtered[k]]
      ELSE filtered

\* filterParameters as it would be if it kept the value "0"
filterStep_KeepsZero(params, key, filtered) ==
  LET value == params[key]
      strValue == Sprintf(value)
  IN  IF key = KeySign \/ value.t = "nil" THEN filtered
      ELSE IF strValue # <<>>
      THEN [k \in DOMAIN filtered \cup {key} |->
              IF k = key THEN strValue ELSE filtered[k]]
      ELSE filtered

\* one pass of the loop of filterParameters
filterStep(params, key, filtered) ==
  LET value == params[key]
      strValue == Sprintf(value)
  IN  IF key = KeySign \/ value.t = "nil" THEN filtered
      ELSE IF strValue # <<>> /\ strValue # <<"0">>
      THEN [k \in DOMAIN filtered \cup {key} |->
              IF k = key THEN strValue ELSE filtered[k]]
      ELSE filtered

RECURSIVE filterLoop(_, _, _)
filterLoop(params, order, filtered) ==
  IF order = <<>> THEN filtered
  ELSE filterLoop(params, Tail(order), filterStep(params, Head(order), filtered))

\* filterParameters, the range loop visiting the keys in the given order
filterParameters(params, order) == filterLoop(params, order, EmptyMap)

\* a < b for strings, byte by byte
RECURSIVE Less(_, _)
Less(a, b) ==
  IF b = <<>> THEN FALSE
  ELSE IF a = <<>> THEN TRUE
  ELSE IF Ord(Head(a)) # Ord(Head(b)) THEN Ord(Head(a)) < Ord(Head(b))
  ELSE Less(Tail(a), Tail(b))

RECURSIVE Insert(_, _)
Insert(k, sorted) ==
  IF sorted = <<>> THEN <<k>>
  ELSE IF Less(k, Head(sorted)) THEN <<k>> \o sorted
  ELSE <<Head(sorted)>> \o Insert(k, Tail(sorted))

\* sort.Strings
RECURSIVE SortStrings(_)
SortStrings(keys) ==
  IF keys = <<>> THEN <<>> ELSE Insert(Head(keys), SortStrings(Tail(keys)))

HexDigits == SubSeq(Printable, 17, 26) \o SubSeq(Printable, 34, 39)

\* shouldEscape as it is in the mode of a path segment, where the characters
\* $ & + , : ; = @ stay as they are
ShouldEscape_PathSegment(c) ==
  ~(\/ Ord(c) \in 48..57 \/ Ord(c) \in 65..90 \/ Ord(c) \in 97..122
    \/ c \in {"-", "_", ".", "~", "$", "&", "+", ",", ":", ";", "=", "@"})

\* net/url shouldEscape in the mode of a query component
ShouldEscape(c) ==
  ~(\/ Ord(c) \in 48..57 \/ Ord(c) \in 65..90 \/ Ord(c) \in 97..122
    \/ c \in {"-", "_", ".", "~"})

\* url.QueryEscape
RECURSIVE QueryEscape(_)
QueryEscape(s) ==
  IF s = <<>> THEN <<>>
  ELSE (IF Head(s) = " " THEN <<"+">>
        ELSE IF ShouldEscape(Head(s))
        THEN <<"%", HexDigits[(Ord(Head(s)) \div 16) + 1],
               HexDigits[(Ord(Head(s)) % 16) + 1]>>
        ELSE <<Head(s)>>)
       \o QueryEscape(Tail(s))

\* url.Values.Add
ValuesAdd(values, key, value) ==
  [k \in DOMAIN values \cup {key} |->
     IF k = key
     THEN (IF key \in DOMAIN values THEN values[key] ELSE <<>>) \o <<value>>
     ELSE values[k]]

RECURSIVE EncodeValuesOf(_, _, _)
EncodeValuesOf(keyEscaped, vs, buf) ==
  IF vs = <<>> THEN buf
  ELSE EncodeValuesOf(keyEscaped, Tail(vs),
         (IF buf # <<>> THEN buf \o <<"&">> ELSE buf)
         \o keyEscaped \o <<"=">> \o QueryEscape(Head(vs)))

RECURSIVE EncodeKeys(_, _, _)
EncodeKeys(values, keys, buf) ==
  IF keys = <<>> THEN buf
  ELSE EncodeKeys(values, Tail(keys),
         EncodeValuesOf(QueryEscape(Head(keys)), values[Head(keys)], buf))

\* url.Values.Encode as it would be if it sorted the keys in their escaped form
ValuesEncode_SortsEscaped(values) ==
  LET keys == CHOOSE o \in Orders(DOMAIN values) :
                \A i \in 1..(Len(o) - 1) :
                  Less(QueryEscape(o[i]), QueryEscape(o[i + 1]))
  IN  EncodeKeys(values, keys, <<>>)

\* url.Values.Encode: the keys sorted, key=value joined by "&"
ValuesEncode(values) ==
  EncodeKeys(values,
             SortStrings(CHOOSE o \in Orders(DOMAIN values) : TRUE), <<>>)

RECURSIVE addLoop(_, _, _)
addLoop(params, keys, values) ==
  IF keys = <<>> THEN values
  ELSE addLoop(params, Tail(keys),
               ValuesAdd(values, Head(keys), params[Head(keys)]))

\* createSignString, the range loop visiting the keys in the given order
createSignString(params, order) ==
  IF Cardinality(DOMAIN params) = 0 THEN <<>>
  ELSE LET keys == SortStrings(order)
           values == addLoop(params, keys, EmptyMap)
       IN  ValuesEncode(values)

\* SignParameters; order1 and order2 are the orders of the two range loops
SignParameters(r, params, order1, order2, random) ==
  LET filtered == filterParameters(params, order1)
      signString == createSignString(filtered, order2)
  IN  Sign(r, signString, random)


-----------------------------------------------------------------------------
(* encoding/json at the scale of the model.  A JSON text is a sequence of   *)
(* characters.  A JSON value is null, a boolean, a number, a string, an     *)
(* object (a function from member names to values, the last of two members  *)
(* of one name winning) or an array.  The numbers of the model are          *)
(* integers, and the names of members are spelled as the struct tags spell  *)
(* them.                                                                    *)

JsonNull ==
  [t |-> "null", b |-> FALSE, n |-> 0, s |-> <<>>, m |-> EmptyMap, a |-> <<>>]

JsonBool(b) == [JsonNull EXCEPT !.t = "bool", !.b = b]

JsonNumber(n) == [JsonNull EXCEPT !.t = "number", !.n = n]

JsonString(s) == [JsonNull EXCEPT !.t = "string", !.s = s]

JsonObject(m) == [JsonNull EXCEPT !.t = "object", !.m = m]

JsonArray(a) == [JsonNull EXCEPT !.t = "array", !.a = a]

\* the character of a byte value
Chr(n) == CHOOSE c \in DOMAIN OrdTable : OrdTable[c] = n

IsChr(n) == \E c \in DOMAIN OrdTable : OrdTable[c] = n

IsDigit(c) == c \in {"0", "1", "2", "3", "4", "5", "6", "7", "8", "9"}

JsonHexDigits ==
  << "0", "1", "2", "3", "4", "5", "6", "7", "8", "9", "a", "b", "c", "d",
     "e", "f" >>

IsJsonHex(c) ==
  \/ \E i \in 1..16 : JsonHexDigits[i] = c
  \/ c \in {"A", "B", "C", "D", "E", "F"}

JsonHexValue(c) ==
  IF \E i \in 1..16 : JsonHexDigits[i] = c
  THEN (CHOOSE i \in 1..16 : JsonHexDigits[i] = c) - 1
  ELSE Ord(c) - 55

\* the scanner's result when the text is no JSON
SyntaxError == [ok |-> FALSE, v |-> JsonNull, i |-> 0]

RECURSIVE SkipSpace(_, _)
SkipSpace(s, i) ==
  IF i <= Len(s) /\ s[i] \in {" ", "\t", "\n", "\r"}
  THEN SkipSpace(s, i + 1)
  ELSE i

\* the word stands in s at position i
HasAt(s, i, word) ==
  /\ i + Len(word) - 1 <= Len(s)
  /\ SubSeq(s, i, i + Len(word) - 1) = word

\* a string from the character after its opening quote; acc holds what has
\* been read of it
RECURSIVE ScanString(_, _, _)
ScanString(s, i, acc) ==
  IF i > Len(s) THEN SyntaxError
  ELSE IF s[i] = "\"" THEN [ok |-> TRUE, v |-> JsonString(acc), i |-> i + 1]
  ELSE IF s[i] \in {"\t", "\n", "\r"} THEN SyntaxError
  ELSE IF s[i] # "\\" THEN ScanString(s, i + 1, Append(acc, s[i]))
  ELSE IF i + 1 > Len(s) THEN SyntaxError
  ELSE IF s[i + 1] \in {"\"", "\\", "/"}
  THEN ScanString(s, i + 2, Append(acc, s[i + 1]))
  ELSE IF s[i + 1] = "n" THEN ScanString(s, i + 2, Append(acc, "\n"))
  ELSE IF s[i + 1] = "t" THEN ScanString(s, i + 2, Append(acc, "\t"))
  ELSE IF s[i + 1] = "r" THEN ScanString(s, i + 2, Append(acc, "\r"))
  ELSE IF /\ s[i + 1] = "u" /\ i + 5 <= Len(s)
          /\ \A j \in (i + 2)..(i + 5) : IsJsonHex(s[j])
          /\ s[i + 2] = "0" /\ s[i + 3] = "0"
          /\ IsChr(16 * JsonHexValue(s[i + 4]) + JsonHexValue(s[i + 5]))
  THEN ScanString(s, i + 6,
                  Append(acc, Chr(16 * JsonHexValue(s[i + 4])
                                  + JsonHexValue(s[i + 5]))))
  ELSE SyntaxError

RECURSIVE ScanDigits(_, _)
ScanDigits(s, i) ==
  IF i <= Len(s) /\ IsDigit(s[i]) THEN ScanDigits(s, i + 1) ELSE i

RECURSIVE DigitsValue(_)
DigitsValue(ds) ==
  IF ds = <<>> THEN 0
  ELSE 10 * DigitsValue(SubSeq(ds, 1, Len(ds) - 1)) + (Ord(ds[Len(ds)]) - 48)

\* a number from its first character: a minus sign or a digit
ScanNumber(s, i) ==
  LET first == IF s[i] = "-" THEN i + 1 ELSE i
      end == IF first <= Len(s) /\ s[first] = "0" THEN first + 1
             ELSE ScanDigits(s, first)
      value == DigitsValue(SubSeq(s, first, end - 1))
  IN  IF end = first THEN SyntaxError
      ELSE IF end <= Len(s) /\ s[end] \in {".", "e", "E"} THEN SyntaxError
      ELSE [ok |-> TRUE,
            v |-> JsonNumber(IF s[i] = "-" THEN 0 - value ELSE value),
            i |-> end]

\* a value from position i; the result holds the position after the value
RECURSIVE ScanValue(_, _)
RECURSIVE ScanMembers(_, _, _)
RECURSIVE ScanElements(_, _, _)
ScanValue(s, from) ==
  LET i == SkipSpace(s, from)
  IN  IF i > Len(s) THEN SyntaxError
      ELSE IF s[i] = "{" THEN
        IF SkipSpace(s, i + 1) <= Len(s) /\ s[SkipSpace(s, i + 1)] = "}"
        THEN [ok |-> TRUE, v |-> JsonObject(EmptyMap),
              i |-> SkipSpace(s, i + 1) + 1]
        ELSE ScanMembers(s, SkipSpace(s, i + 1), EmptyMap)
      ELSE IF s[i] = "[" THEN
        IF SkipSpace(s, i + 1) <= Len(s) /\ s[SkipSpace(s, i + 1)] = "]"
        THEN [ok |-> TRUE, v |-> JsonArray(<<>>),
              i |-> SkipSpace(s, i + 1) + 1]
        ELSE ScanElements(s, i + 1, <<>>)
      ELSE IF s[i] = "\"" THEN ScanString(s, i + 1, <<>>)
      ELSE IF HasAt(s, i, <<"t", "r", "u", "e">>)
      THEN [ok |-> TRUE, v |-> JsonBool(TRUE), i |-> i + 4]
      ELSE IF HasAt(s, i, <<"f", "a", "l", "s", "e">>)
      THEN [ok |-> TRUE, v |-> JsonBool(FALSE), i |-> i + 5]
      ELSE IF HasAt(s, i, <<"n", "u", "l", "l">>)
      THEN [ok |-> TRUE, v |-> JsonNull, i |-> i + 4]
      ELSE IF s[i] = "-" \/ IsDigit(s[i]) THEN ScanNumber(s, i)
      ELSE SyntaxError

\* the members of an object from the quote of a name; m holds the members
\* that have been read
ScanMembers(s, i, m) ==
  IF i > Len(s) \/ s[i] # "\"" THEN SyntaxError
  ELSE
    LET name == ScanString(s, i + 1, <<>>)
        colon == SkipSpace(s, name.i)
        value == ScanValue(s, colon + 1)
        next == SkipSpace(s, value.i)
        members == [k \in DOMAIN m \cup {name.v.s} |->
                      IF k = name.v.s THEN value.v ELSE m[k]]
    IN  IF ~name.ok THEN SyntaxError
        ELSE IF colon > Len(s) \/ s[colon] # ":" THEN SyntaxError
        ELSE IF ~value.ok THEN SyntaxError
        ELSE IF next > Len(s) THEN SyntaxError
        ELSE IF s[next] = "}"
        THEN [ok |-> TRUE, v |-> JsonObject(members), i |-> next + 1]
        ELSE IF s[next] = ","
        THEN ScanMembers(s, SkipSpace(s, next + 1), members)
        ELSE SyntaxError

\* the elements of an array from position i; a holds the elements that have
\* been read
ScanElements(s, i, a) ==
  LET value == ScanValue(s, i)
      next == SkipSpace(s, value.i)
  IN  IF ~value.ok THEN SyntaxError
      ELSE IF next > Len(s) THEN SyntaxError
      ELSE IF s[next] = "]"
      THEN [ok |-> TRUE, v |-> JsonArray(Append(a, value.v)), i |-> next + 1]
      ELSE IF s[next] = ","
      THEN ScanElements(s, next + 1, Append(a, value.v))
      ELSE SyntaxError

\* the value of a JSON text: one value, with nothing but space around it
Decode(data) ==
  LET value == ScanValue(data, 1)
  IN  IF value.ok /\ SkipSpace(data, value.i) = Len(data) + 1
      THEN [ok |-> TRUE, v |-> value.v]
      ELSE [ok |-> FALSE, v |-> JsonNull]

\* a string between quotes, as json.Marshal writes it: the quote and the
\* backslash behind a backslash, and <, > and & by their \u00XX numbers
RECURSIVE EscapeString(_)
EscapeString(s) ==
  IF s = <<>> THEN <<>>
  ELSE (IF Head(s) \in {"\"", "\\"} THEN <<"\\", Head(s)>>
        ELSE IF Head(s) = "<" THEN <<"\\", "u", "0", "0", "3", "c">>
        ELSE IF Head(s) = ">" THEN <<"\\", "u", "0", "0", "3", "e">>
        ELSE IF Head(s) = "&" THEN <<"\\", "u", "0", "0", "2", "6">>
        ELSE IF Head(s) = "\n" THEN <<"\\", "n">>
        ELSE IF Head(s) = "\r" THEN <<"\\", "r">>
        ELSE IF Head(s) = "\t" THEN <<"\\", "t">>
        ELSE <<Head(s)>>)
       \o EscapeString(Tail(s))

Quoted(s) == <<"\"">> \o EscapeString(s) \o <<"\"">>

\* the texts joined with commas
RECURSIVE JoinComma(_)
JoinComma(texts) ==
  IF texts = <<>> THEN <<>>
  ELSE IF Len(texts) = 1 THEN texts[1]
  ELSE texts[1] \o <<",">> \o JoinComma(Tail(texts))

\* json.Marshal of a value held in an interface{}: the members of an object
\* in the order of their names
RECURSIVE EncodeValue(_)
EncodeValue(v) ==
  IF v.t = "null" THEN <<"n", "u", "l", "l">>
  ELSE IF v.t = "bool" THEN
    IF v.b THEN <<"t", "r", "u", "e">> ELSE <<"f", "a", "l", "s", "e">>
  ELSE IF v.t = "number" THEN Itoa(v.n)
  ELSE IF v.t = "string" THEN Quoted(v.s)
  ELSE IF v.t = "array" THEN
    <<"[">> \o JoinComma([i \in 1..Len(v.a) |-> EncodeValue(v.a[i])])
    \o <<"]">>
  ELSE LET names == SortStrings(CHOOSE order \in Orders(DOMAIN v.m) : TRUE)
       IN  <<"{">>
           \o JoinComma([i \in 1..Len(names) |->
                           Quoted(names[i]) \o <<":">>
                           \o EncodeValue(v.m[names[i]])])
           \o <<"}">>

-----------------------------------------------------------------------------

(* src/client/client.go.  A Config holds its two strings and two byte       *)
(* slices, its Timeout in seconds and its Logger ("nil" when none is set).  *)

ZeroConfig ==
  [AppID |-> <<>>, GatewayURL |-> <<>>, MerchantPrivateKey |-> <<>>,
   GatewayPublicKey |-> <<>>, Timeout |-> 0, Logger |-> "nil"]

\* the zero value Client{}
ZeroClient ==
  [config |-> ZeroConfig, httpTimeout |-> 0, auth |-> ZeroAuth,
   logger |-> "nil"]

\* 30 * time.Second
DefaultTimeout == 30

\* New as it would be if it returned the client it has put together next to
\* the error of NewRSAAuth
New_ClientWithError(config) ==
  LET timeout == IF config.Timeout = 0 THEN DefaultTimeout ELSE config.Timeout
      logger == IF config.Logger = "nil" THEN "default" ELSE config.Logger
      withDefaults == [config EXCEPT !.Timeout = timeout, !.Logger = logger]
      rsaAuth == NewRSAAuth(config.MerchantPrivateKey, config.GatewayPublicKey)
  IN  IF config.AppID = <<>> THEN
        [client |-> ZeroClient, err |-> <<"app_id is required">>]
      ELSE IF config.GatewayURL = <<>> THEN
        [client |-> ZeroClient, err |-> <<"gateway_url is required">>]
      ELSE IF Len(config.MerchantPrivateKey) = 0 THEN
        [client |-> ZeroClient, err |-> <<"merchant_private_key is required">>]
      ELSE IF Len(config.GatewayPublicKey) = 0 THEN
        [client |-> ZeroClient, err |-> <<"gateway_public_key is required">>]
      ELSE [client |-> [config |-> withDefaults, httpTimeout |-> timeout,
                        auth |-> rsaAuth.auth, logger |-> logger],
            err |-> IF rsaAuth.err # Nil
                    THEN Wrap("failed to initialize RSA auth", rsaAuth.err)
                    ELSE Nil]

\* New as it would be if it initialized the engine before it looked at the
\* fields
New_KeysFirst(config) ==
  LET timeout == IF config.Timeout = 0 THEN DefaultTimeout ELSE config.Timeout
      logger == IF config.Logger = "nil" THEN "default" ELSE config.Logger
      withDefaults == [config EXCEPT !.Timeout = timeout, !.Logger = logger]
      rsaAuth == NewRSAAuth(config.MerchantPrivateKey, config.GatewayPublicKey)
  IN  IF rsaAuth.err # Nil THEN
        [client |-> ZeroClient,
         err |-> Wrap("failed to initialize RSA auth", rsaAuth.err)]
      ELSE IF config.AppID = <<>> THEN
        [client |-> ZeroClient, err |-> <<"app_id is required">>]
      ELSE IF config.GatewayURL = <<>> THEN
        [client |-> ZeroClient, err |-> <<"gateway_url is required">>]
      ELSE [client |-> [config |-> withDefaults, httpTimeout |-> timeout,
                        auth |-> rsaAuth.auth, logger |-> logger],
            err |-> Nil]

\* New
New(config) ==
  LET timeout == IF config.Timeout = 0 THEN DefaultTimeout ELSE config.Timeout
      logger == IF config.Logger = "nil" THEN "default" ELSE config.Logger
      withDefaults == [config EXCEPT !.Timeout = timeout, !.Logger = logger]
      rsaAuth == NewRSAAuth(config.MerchantPrivateKey, config.GatewayPublicKey)
  IN  IF config.AppID = <<>> THEN
        [client |-> ZeroClient, err |-> <<"app_id is required">>]
      ELSE IF config.GatewayURL = <<>> THEN
        [client |-> ZeroClient, err |-> <<"gateway_url is required">>]
      ELSE IF Len(config.MerchantPrivateKey) = 0 THEN
        [client |-> ZeroClient, err |-> <<"merchant_private_key is required">>]
      ELSE IF Len(config.GatewayPublicKey) = 0 THEN
        [client |-> ZeroClient, err |-> <<"gateway_public_key is required">>]
      ELSE IF rsaAuth.err # Nil THEN
        [client |-> ZeroClient,
         err |-> Wrap("failed to initialize RSA auth", rsaAuth.err)]
      ELSE [client |-> [config |-> withDefaults, httpTimeout |-> timeout,
                        auth |-> rsaAuth.auth, logger |-> logger],
            err |-> Nil]

-----------------------------------------------------------------------------
(* src/types.  A struct type is the sequence of its fields, each with its  *)
(* name, its json tag, its type and whether the tag says omitempty; a      *)
(* struct value is a record of its fields.  The types are those the client *)
(* is built with: its Logger takes keys and values, and the Error of an    *)
(* APIResponse is an APIError value.  A float64 is a whole number or NaN.  *)

\* the characters of a string
Chars(str) == [i \in 1..Len(str) |-> SubSeq(str, i, i)]

StructField(name, tag, type, omitempty) ==
  [name |-> name, tag |-> Chars(tag), type |-> type, omitempty |-> omitempty]

Float(n) == [nan |-> FALSE, n |-> n]

NaN == [nan |-> TRUE, n |-> 0]

CheckoutRequest ==
  << StructField("MerchantNo", "merchant_no", "string", FALSE),
     StructField("StoreNo", "store_no", "string", FALSE),
     StructField("MerchantOrderNo", "merchant_order_no", "string", FALSE),
     StructField("PriceCurrency", "price_currency", "string", FALSE),
     StructField("OrderAmount", "order_amount", "float64", FALSE),
     StructField("Expires", "expires", "int64", FALSE),
     StructField("NotifyURL", "notify_url", "string", FALSE),
     StructField("ReturnURL", "return_url", "string", FALSE),
     StructField("Description", "description", "string", TRUE),
     StructField("Geolocation", "geolocation", "string", TRUE) >>

CheckoutResponse == << StructField("PayURL", "pay_url", "string", FALSE) >>

QueryTokenRequest == << StructField("Token", "token", "string", FALSE) >>

TokenInfo ==
  << StructField("CardNumber", "card_number", "string", FALSE),
     StructField("ExpiryDate", "expiry_date", "string", FALSE),
     StructField("CardType", "card_type", "string", FALSE) >>

QueryTokenResponse ==
  << StructField("TokenStatus", "token_status", "string", FALSE),
     StructField("TokenInfo", "token_info", "TokenInfo", FALSE) >>

TokenizedPayRequest ==
  << StructField("MerchantNo", "merchant_no", "string", FALSE),
     StructField("StoreNo", "store_no", "string", FALSE),
     StructField("MerchantOrderNo", "merchant_order_no", "string", FALSE),
     StructField("Token", "token", "string", FALSE),
     StructField("PriceCurrency", "price_currency", "string", FALSE),
     StructField("OrderAmount", "order_amount", "float64", FALSE),
     StructField("NotifyURL", "notify_url", "string", FALSE),
     StructField("Description", "description", "string", TRUE) >>

TokenizedPayResponse ==
  << StructField("TransactionID", "transaction_id", "string", FALSE),
     StructField("TransactionStatus", "transaction_status", "string", FALSE) >>

DebitCheckRequest ==
  << StructField("MerchantNo", "merchant_no", "string", FALSE),
     StructField("StoreNo", "store_no", "string", FALSE),
     StructField("MerchantOrderNo", "merchant_order_no", "string", FALSE),
     StructField("AccountNumber", "account_number", "string", FALSE),
     StructField("BankCode", "bank_code", "string", FALSE),
     StructField("Amount", "amount", "float64", FALSE),
     StructField("Currency", "currency", "string", FALSE),
     StructField("NotifyURL", "notify_url", "string", FALSE),
     StructField("Description", "description", "string", TRUE) >>

DebitCheckResponse ==
  << StructField("MandateID", "mandate_id", "string", FALSE),
     StructField("MandateStatus", "mandate_status", "string", FALSE) >>

APIError ==
  << StructField("Code", "code", "string", FALSE),
     StructField("Message", "message", "string", FALSE),
     StructField("Details", "details", "string", TRUE) >>

APIResponse ==
  << StructField("Success", "success", "bool", FALSE),
     StructField("Data", "data", "interface{}", TRUE),
     StructField("Error", "error", "APIError", TRUE) >>

ScalarTypes == {"string", "bool", "float64", "int64", "interface{}"}

\* the fields of a struct type
Fields(type) ==
  IF type = "CheckoutRequest" THEN CheckoutRequest
  ELSE IF type = "CheckoutResponse" THEN CheckoutResponse
  ELSE IF type = "QueryTokenRequest" THEN QueryTokenRequest
  ELSE IF type = "QueryTokenResponse" THEN QueryTokenResponse
  ELSE IF type = "TokenInfo" THEN TokenInfo
  ELSE IF type = "TokenizedPayRequest" THEN TokenizedPayRequest
  ELSE IF type = "TokenizedPayResponse" THEN TokenizedPayResponse
  ELSE IF type = "DebitCheckRequest" THEN DebitCheckRequest
  ELSE IF type = "DebitCheckResponse" THEN DebitCheckResponse
  ELSE IF type = "APIError" THEN APIError
  ELSE APIResponse

FieldNames(type) == { Fields(type)[i].name : i \in 1..Len(Fields(type)) }

\* the field of the struct type that has the name
FieldNamed(type, name) ==
  LET i == CHOOSE i \in 1..Len(Fields(type)) : Fields(type)[i].name = name
  IN  Fields(type)[i]

RECURSIVE Zero(_)
\* the zero value of a type
Zero(type) ==
  IF type = "string" THEN <<>>
  ELSE IF type = "bool" THEN FALSE
  ELSE IF type = "float64" THEN Float(0)
  ELSE IF type = "int64" THEN 0
  ELSE IF type = "interface{}" THEN JsonNull
  ELSE [name \in FieldNames(type) |-> Zero(FieldNamed(type, name).type)]

\* an interface{} argument that holds a value of a struct type, and the nil
\* argument
Interface(type, v) == [type |-> type, v |-> v]

NilInterface == [type |-> "nil", v |-> [none |-> TRUE]]

-----------------------------------------------------------------------------
(* encoding/json as the client uses it.  Keys of members are matched with  *)
(* the tags as they are written.                                            *)

ErrJsonSyntax == <<"json: syntax error">>

ErrJsonType == <<"json: cannot unmarshal value into Go value">>

ErrJsonUnsupportedValue == <<"json: unsupported value: NaN">>

\* the members of a struct between braces
Braces(members) == <<"{">> \o JoinComma(members) \o <<"}">>

\* a value of a type without fields, as json.Marshal writes it
MarshalScalar(v, type) ==
  IF type = "string" THEN Quoted(v)
  ELSE IF type = "bool" THEN (IF v THEN Chars("true") ELSE Chars("false"))
  ELSE IF type = "float64" THEN Itoa(v.n)
  ELSE IF type = "int64" THEN Itoa(v)
  ELSE EncodeValue(v)

\* json.Marshal of a value of a struct type whose fields have no fields: a
\* field with omitempty is left out when it holds its zero value
Marshal(v, type) ==
  LET fields == Fields(type)
      written == SelectSeq(fields,
                           LAMBDA f : ~(f.omitempty /\ v[f.name] = Zero(f.type)))
      members == [i \in 1..Len(written) |->
                    Quoted(written[i].tag) \o <<":">>
                      \o MarshalScalar(v[written[i].name], written[i].type)]
  IN  IF \E i \in 1..Len(fields) :
           fields[i].type = "float64" /\ v[fields[i].name].nan
      THEN [bytes |-> <<>>, err |-> ErrJsonUnsupportedValue]
      ELSE [bytes |-> Braces(members), err |-> Nil]

\* the JSON value has the kind that a type without fields takes
FitsScalar(value, type) ==
  \/ type = "interface{}"
  \/ type = "string" /\ value.t = "string"
  \/ type = "bool" /\ value.t = "bool"
  \/ type \in {"float64", "int64"} /\ value.t = "number"

\* the value of a type without fields that the JSON value is decoded to
FromScalar(value, type) ==
  IF type = "string" THEN value.s
  ELSE IF type = "bool" THEN value.b
  ELSE IF type = "float64" THEN Float(value.n)
  ELSE IF type = "int64" THEN value.n
  ELSE value

RECURSIVE DecodeInto(_, _, _)
\* what a variable of the type holds after the JSON value has been decoded
\* into it, old being what it held before: null and a value of another kind
\* leave it as it was, and a struct keeps the fields the object does not name
DecodeInto(value, type, old) ==
  IF value.t = "null" THEN old
  ELSE IF type \in ScalarTypes
  THEN (IF FitsScalar(value, type) THEN FromScalar(value, type) ELSE old)
  ELSE IF value.t # "object" THEN old
  ELSE [name \in FieldNames(type) |->
          LET f == FieldNamed(type, name)
          IN  IF f.tag \in DOMAIN value.m
              THEN DecodeInto(value.m[f.tag], f.type, old[name])
              ELSE old[name]]

RECURSIVE Mismatch(_, _)
\* the JSON value, or a member of it, has not the kind of the type or field
\* it is decoded into
Mismatch(value, type) ==
  IF value.t = "null" THEN FALSE
  ELSE IF type \in ScalarTypes THEN ~FitsScalar(value, type)
  ELSE \/ value.t # "object"
       \/ \E i \in 1..Len(Fields(type)) :
            LET f == Fields(type)[i]
            IN  /\ f.tag \in DOMAIN value.m
                /\ Mismatch(value.m[f.tag], f.type)

\* json.Unmarshal once the text has been scanned to value: nothing is decoded
\* from a text that is not JSON, and the decoding goes on after a value of
\* the wrong kind
UnmarshalValue(value, type, old) ==
  IF ~value.ok THEN [v |-> old, err |-> ErrJsonSyntax]
  ELSE [v |-> DecodeInto(value.v, type, old),
        err |-> IF Mismatch(value.v, type) THEN ErrJsonType ELSE Nil]

\* json.Unmarshal(data, &v), v being a variable of the type that holds old
Unmarshal(data, type, old) == UnmarshalValue(Decode(data), type, old)

-----------------------------------------------------------------------------

(* The operations of the client, src/client/client.go.  The error of an    *)
(* operation is a record: kind "nil" for no error, "error" for an          *)
(* fmt.Errorf with its message and the error it wraps, or with the status  *)
(* and body of "HTTP %d: %s", and "APIError" with the APIError.  What the  *)
(* operations hand to the logger leaves the client as it is.               *)

NoError ==
  [kind |-> "nil", msg |-> "", cause |-> Nil, status |-> 0, body |-> <<>>,
   api |-> Zero("APIError")]

\* fmt.Errorf(msg + ": %w", cause)
Errorf(msg, cause) ==
  [NoError EXCEPT !.kind = "error", !.msg = msg, !.cause = cause]

\* fmt.Errorf("HTTP %d: %s", status, body)
HttpError(status, body) ==
  [NoError EXCEPT !.kind = "error", !.msg = "HTTP %d: %s", !.status = status,
                  !.body = body]

\* an APIError returned as the error
AsError(apiError) == [NoError EXCEPT !.kind = "APIError", !.api = apiError]

\* the characters url.Parse takes for control characters
ControlCharacters == {"\n", "\r", "\t"}

ErrInvalidControlCharacter == <<"net/url: invalid control character in URL">>

\* the request handed to the transport; the names of the headers are as the
\* client writes them
NoRequest ==
  [Method |-> <<>>, URL |-> <<>>, Header |-> [name \in {} |-> <<>>],
   Body |-> <<>>]

\* what the response argument of makeRequest points to before the call
Pointee(type) == IF type = "nil" THEN NilInterface.v ELSE Zero(type)

\* the headers makeRequest sets on every request
Headers(c) ==
  [name \in {"Content-Type", "Accept", "User-Agent", "X-App-ID"} |->
     IF name \in {"Content-Type", "Accept"} THEN Chars("application/json")
     ELSE IF name = "User-Agent" THEN Chars("addpay-go/1.0.0")
     ELSE c.config.AppID]

\* req.Header.Set(name, value)
HeaderSet(header, name, value) ==
  [n \in DOMAIN header \cup {name} |-> IF n = name THEN value ELSE header[n]]

\* Signed as it would be if a request whose body could not be signed went
\* out without a signature
Signed_SendsUnsigned(req, signature) ==
  IF signature.err # Nil
  THEN [sent |-> TRUE, req |-> req, err |-> NoError]
  ELSE [sent |-> TRUE,
        req |-> [req EXCEPT
                   !.Header = HeaderSet(@, "X-Signature", signature.out)],
        err |-> NoError]

\* a request with a body that is not empty, once Sign has returned: the
\* request with the signature, or the error and no request
Signed(req, signature) ==
  IF signature.err # Nil
  THEN [sent |-> FALSE, req |-> NoRequest,
        err |-> Errorf("failed to sign request", signature.err)]
  ELSE [sent |-> TRUE,
        req |-> [req EXCEPT
                   !.Header = HeaderSet(@, "X-Signature", signature.out)],
        err |-> NoError]

\* makeRequest from the body to c.httpClient.Do
SendBody(c, method, url, body, random) ==
  IF \E i \in 1..Len(url) : url[i] \in ControlCharacters
  THEN [sent |-> FALSE, req |-> NoRequest,
        err |-> Errorf("failed to create request",
                       ErrInvalidControlCharacter)]
  ELSE IF Len(body) > 0
  THEN Signed([Method |-> method, URL |-> url, Header |-> Headers(c),
               Body |-> body],
              Sign(c.auth, body, random))
  ELSE [sent |-> TRUE,
        req |-> [Method |-> method, URL |-> url, Header |-> Headers(c),
                 Body |-> body],
        err |-> NoError]

\* makeRequest once json.Marshal has returned
SendMarshalled(c, method, path, marshalled, random) ==
  IF marshalled.err # Nil
  THEN [sent |-> FALSE, req |-> NoRequest,
        err |-> Errorf("failed to marshal request", marshalled.err)]
  ELSE SendBody(c, method, c.config.GatewayURL \o path, marshalled.bytes,
                random)

\* makeRequest up to c.httpClient.Do: the request it hands to the transport,
\* or the error it returns without handing any; random is what rand.Reader
\* yields
makeRequestSend(c, method, path, request, random) ==
  SendMarshalled(c, method, path,
                 IF request.type = "nil" THEN [bytes |-> <<>>, err |-> Nil]
                 ELSE Marshal(request.v, request.type),
                 random)

\* what makeRequest returns for a status of 400 or more, apiResp being what
\* json.Unmarshal has made of the body
StatusError(StatusCode, respBody, apiResp) ==
  IF apiResp.err = Nil /\ apiResp.v.Error.Message # <<>>
  THEN AsError(apiResp.v.Error)
  ELSE HttpError(StatusCode, respBody)

\* the response argument after r, the result of json.Unmarshal into it, and
\* the error that makeRequest returns with it
Decoded(msg, r) ==
  [response |-> r.v,
   err |-> IF r.err # Nil THEN Errorf(msg, r.err) ELSE NoError]

\* ParseResponse as it would be if it took every envelope that does not say
\* success for an error
ParseResponse_ChecksSuccess(respBody, type, apiResp) ==
  IF apiResp.err = Nil THEN
    IF ~apiResp.v.Success
    THEN [response |-> Pointee(type), err |-> AsError(apiResp.v.Error)]
    ELSE IF apiResp.v.Data # JsonNull
    THEN Decoded("failed to unmarshal data",
                 Unmarshal(EncodeValue(apiResp.v.Data), type, Pointee(type)))
    ELSE [response |-> Pointee(type), err |-> NoError]
  ELSE Decoded("failed to unmarshal response",
               Unmarshal(respBody, type, Pointee(type)))

\* what makeRequest makes of the body of a response of a status below 400,
\* apiResp being what json.Unmarshal has made of the body; json.Marshal
\* fails on no value that json.Unmarshal has decoded
ParseResponse(respBody, type, apiResp) ==
  IF apiResp.err = Nil THEN
    IF ~apiResp.v.Success /\ apiResp.v.Error.Message # <<>>
    THEN [response |-> Pointee(type), err |-> AsError(apiResp.v.Error)]
    ELSE IF apiResp.v.Data # JsonNull
    THEN Decoded("failed to unmarshal data",
                 Unmarshal(EncodeValue(apiResp.v.Data), type, Pointee(type)))
    ELSE [response |-> Pointee(type), err |-> NoError]
  ELSE Decoded("failed to unmarshal response",
               Unmarshal(respBody, type, Pointee(type)))

\* makeRequest as it would be if it took only a status above 400 for an error
makeRequestReceive_Above400(StatusCode, respBody, type) ==
  IF StatusCode > 400
  THEN [response |-> Pointee(type),
        err |-> StatusError(StatusCode, respBody,
                            Unmarshal(respBody, "APIResponse",
                                      Zero("APIResponse")))]
  ELSE IF type = "nil" THEN [response |-> Pointee(type), err |-> NoError]
  ELSE ParseResponse(respBody, type,
                     Unmarshal(respBody, "APIResponse", Zero("APIResponse")))

\* makeRequest from the response the transport has returned: what the
\* response argument points to afterwards, and the error; type is the type
\* the response argument points to, "nil" for the nil argument
makeRequestReceive(StatusCode, respBody, type) ==
  IF StatusCode >= 400
  THEN [response |-> Pointee(type),
        err |-> StatusError(StatusCode, respBody,
                            Unmarshal(respBody, "APIResponse",
                                      Zero("APIResponse")))]
  ELSE IF type = "nil" THEN [response |-> Pointee(type), err |-> NoError]
  ELSE ParseResponse(respBody, type,
                     Unmarshal(respBody, "APIResponse", Zero("APIResponse")))

\* makeRequest when c.httpClient.Do or io.ReadAll returns an error
makeRequestFails(stage, type) ==
  [response |-> Pointee(type),
   err |-> IF stage = "Do"
           THEN Errorf("request failed", <<"transport error">>)
           ELSE Errorf("failed to read response", <<"transport error">>)]

Operations == {"HostedCheckout", "QueryToken", "TokenizedPay", "DebitCheck"}

\* the path an operation posts to
Path(op) ==
  IF op = "HostedCheckout" THEN Chars("/api/entry/checkout")
  ELSE IF op = "QueryToken" THEN Chars("/api/entry/query-token")
  ELSE IF op = "TokenizedPay" THEN Chars("/api/entry/tokenized-pay")
  ELSE Chars("/api/entry/debit-check")

\* the type of the request of an operation
RequestType(op) ==
  IF op = "HostedCheckout" THEN "CheckoutRequest"
  ELSE IF op = "QueryToken" THEN "QueryTokenRequest"
  ELSE IF op = "TokenizedPay" THEN "TokenizedPayRequest"
  ELSE "DebitCheckRequest"

\* the type of the response of an operation, "nil" for makeRequest called
\* with no response argument
ResponseType(op) ==
  IF op = "HostedCheckout" THEN "CheckoutResponse"
  ELSE IF op = "QueryToken" THEN "QueryTokenResponse"
  ELSE IF op = "TokenizedPay" THEN "TokenizedPayResponse"
  ELSE IF op = "DebitCheck" THEN "DebitCheckResponse"
  ELSE "nil"

\* what an operation returns once makeRequest has returned r: the response
\* makeRequest has filled and nil, or the zero response and the error
Returns(op, r) ==
  IF op \in Operations /\ r.err # NoError
  THEN [response |-> Zero(ResponseType(op)), err |-> r.err]
  ELSE r

-----------------------------------------------------------------------------

(* The inputs of the model *)

RECURSIVE SeqsUpTo(_, _)
SeqsUpTo(S, n) ==
  IF n = 0 THEN {<<>>}
  ELSE LET shorter == SeqsUpTo(S, n - 1)
       IN  shorter \cup { <<c>> \o t : c \in S, t \in { u \in shorter : Len(u) = n - 1 } }

PayloadChars == {"a", "b"}

Payloads == SeqsUpTo(PayloadChars, MaxPayloadLen)

OtherAlgorithms == {"ECDSA", "DSA", "X448"}

\* the four encodings of RSA private key i
PemPkcs1(i) == PemEncode("RSA PRIVATE KEY", MarshalPKCS1PrivateKey(i))

PemPkcs8(i) == PemEncode("PRIVATE KEY", MarshalPKCS8PrivateKey("RSA", i))

RawPkcs1(i) == EncodeToString(MarshalPKCS1PrivateKey(i))

RawPkcs8(i) == EncodeToString(MarshalPKCS8PrivateKey("RSA", i))

PrivateEncodings(i) == {PemPkcs1(i), PemPkcs8(i), RawPkcs1(i), RawPkcs8(i)}

\* the two encodings of RSA public key i
PemPkix(i) == PemEncode("PUBLIC KEY", MarshalPKIXPublicKey("RSA", i))

RawPkix(i) == EncodeToString(MarshalPKIXPublicKey("RSA", i))

PublicEncodings(i) == {PemPkix(i), RawPkix(i)}

\* PKCS#8 private keys and SubjectPublicKeyInfo public keys of algorithm alg
OtherPrivate(alg) ==
  { PemEncode("PRIVATE KEY", MarshalPKCS8PrivateKey(alg, 1)),
    EncodeToString(MarshalPKCS8PrivateKey(alg, 1)) }

OtherPublic(alg) ==
  { PemEncode("PUBLIC KEY", MarshalPKIXPublicKey(alg, 1)),
    EncodeToString(MarshalPKIXPublicKey(alg, 1)) }

\* RSA public keys as bare PKCS#1
Pkcs1Public ==
  UNION { { PemEncode("RSA PUBLIC KEY", MarshalPKCS1PublicKey(i)),
            EncodeToString(MarshalPKCS1PublicKey(i)) } : i \in KeyIds }

GarbageText ==
  << "n", "o", "t", " ", "b", "a", "s", "e", "6", "4", " ", "o", "r", " ",
     "p", "e", "m", "!", "!" >>

JunkDer == <<9, 9, 9>>

Malformed ==
  { GarbageText,
    <<"A", "B", "C">>,
    <<BrokenBeginLine, "\n">> \o RawPkcs1(1),
    <<BeginLine("PRIVATE KEY"), "\n">> \o RawPkcs8(1),
    <<BeginLine("PRIVATE KEY"), "\n", "!", "!", "\n", EndLine("PRIVATE KEY")>>,
    <<BeginLine("PRIVATE KEY"), "\n">> \o RawPkcs8(1)
      \o <<"\n", EndLine("PUBLIC KEY")>>,
    EncodeToString(JunkDer),
    PemEncode("PRIVATE KEY", JunkDer) }

KeyTexts ==
  UNION { PrivateEncodings(i) \cup PublicEncodings(i) : i \in KeyIds }
  \cup UNION { OtherPrivate(alg) \cup OtherPublic(alg) : alg \in OtherAlgorithms }
  \cup Pkcs1Public \cup Malformed \cup {<<>>}

Pads == SeqsUpTo({" ", "\n", "\t"}, MaxPad)

\* key material handed to the loader: every text, padded with whitespace
LoaderBlobs == { l \o t \o r : l \in Pads, t \in KeyTexts, r \in Pads }

\* key material handed to NewRSAAuth
EngineBlobs == KeyTexts \cup {<<" ">>}

\* what rand.Reader may yield
Randoms == {0, 1, 2}

\* the engines NewRSAAuth can return
Engines ==
  { [privateKey |-> RsaPrivateKey(i), publicKey |-> RsaPublicKey(j)] :
      i \in KeyIds, j \in KeyIds }

\* signature strings handed to Verify
SignatureStrings ==
  { Sign(r, p, 0).out : r \in Engines, p \in Payloads }
  \cup { <<"!", "!", "!", "!">>, <<"A", "B", "C">>, <<"A", "A", "A", "A">>,
         <<"A", "=", "=", "=">> }

\* plaintexts handed to Encrypt, zero bytes among them
PlainBytes == {0, 65}

Plaintexts == SeqsUpTo(PlainBytes, MaxPlainLen)

\* an encoded message of the length of key 1 with a padding of 3 bytes
ShortPadding == <<0, 2, 1, 1, 1, 0, 65, 65, 65, 65, 65, 65, 65>>

\* strings handed to Decrypt: the ciphertexts of the plaintexts, each also
\* with a byte changed, and strings that are no ciphertext at all
Ciphertexts ==
  LET made == { EncryptPKCS1v15(random, RsaPublicKey(i), p) :
                  random \in {0, 2}, i \in KeyIds, p \in Plaintexts }
      sound == { c.out : c \in { x \in made : x.ok } }
  IN  { EncodeToString(c) : c \in sound }
      \cup { EncodeToString([c EXCEPT ![2] = (c[2] + 1) % 256]) : c \in sound }
      \cup { EncodeToString(RsaOp(RsaKeys[1].e, ShortPadding)),
             <<"!", "!", "!", "!">>, <<"A", "B", "C">>, <<"A", "A", "A", "A">>,
             <<>> }

ParamKeys == { <<"a">>, <<"b">>, KeySign }

ParamValues ==
  { StringValue(<<"1">>), StringValue(<<"0">>), StringValue(<<>>),
    IntValue(0), IntValue(2), NilValue }

\* the parameter map of the canonicalization example
ExampleParams ==
  [ k \in { <<"b">>, <<"a">>, KeySign, <<"z">>, <<"e", "m", "p", "t", "y">> } |->
      IF k = <<"b">> THEN StringValue(<<"2">>)
      ELSE IF k = <<"a">> THEN StringValue(<<"1">>)
      ELSE IF k = KeySign
      THEN StringValue(<<"i", "g", "n", "o", "r", "e", "d">>)
      ELSE IF k = <<"z">> THEN StringValue(<<"0">>)
      ELSE StringValue(<<>>) ]

\* maps with keys that resemble the key sign
SignLikeKeys ==
  { KeySign, <<"S", "i", "g", "n">>,
    <<"s", "i", "g", "n", "a", "t", "u", "r", "e">> }

SignSlotMaps ==
  UNION { [keys -> {StringValue(<<"1">>), StringValue(<<"2">>)}] :
            keys \in SUBSET SignLikeKeys }

\* maps with values around the zero value
ZeroLikeValues ==
  { StringValue(<<"0">>), StringValue(<<"0", "0">>),
    StringValue(<<"0", ".", "0">>), IntValue(0), IntValue(10),
    BoolValue(FALSE), BoolValue(TRUE) }

ZeroLikeMaps ==
  UNION { [keys -> ZeroLikeValues] : keys \in SUBSET { <<"a">>, <<"b">> } }

\* maps of at most two entries with keys and values that need escaping
EscapeKeys == { <<"a", " ">>, <<"a", "!">>, <<"&">>, <<"=", "b">> }

EscapeValues ==
  { StringValue(<<"1">>), StringValue(<<"%">>), StringValue(<<"+">>),
    StringValue(<<" ">>), StringValue(<<"1", "&", "b", "=", "2">>) }

EscapeMaps ==
  UNION { [keys -> EscapeValues] :
            keys \in { ks \in SUBSET EscapeKeys : Cardinality(ks) <= 2 } }

\* maps with nil values and with the string that Sprintf gives for nil
NilLikeValues ==
  { NilValue, StringValue(<<"<", "n", "i", "l", ">">>), StringValue(<<"1">>) }

NilLikeMaps ==
  UNION { [keys -> NilLikeValues] : keys \in SUBSET { <<"a">>, <<"b">> } }

ParamMaps ==
  UNION { [keys -> ParamValues] : keys \in SUBSET ParamKeys }
  \cup {ExampleParams} \cup SignSlotMaps \cup ZeroLikeMaps \cup EscapeMaps
  \cup NilLikeMaps

\* bytes that are no key, as a test hands them to New
DummyKey == <<"d", "u", "m", "m", "y", "-", "k", "e", "y">>

\* key material of the configurations
ConfigBlobs == { <<>>, <<" ">>, DummyKey, PemPkcs8(1), RawPkcs1(2), PemPkix(1),
                 RawPkix(2) }

\* the configurations handed to New
Configs ==
  [ AppID : { <<>>, <<"a", "p", "p">> },
    GatewayURL : { <<>>, <<"u", "r", "l">> },
    MerchantPrivateKey : ConfigBlobs,
    GatewayPublicKey : ConfigBlobs,
    Timeout : {0, 5},
    Logger : {"nil", "custom"} ]

\* key material of an engine that several callers share
SharedPrivate == { PemPkcs8(1), RawPkcs1(3) }

SharedPublic == { PemPkix(1), RawPkix(2) }

\* The gateway: the engine that holds the private key of the public key the
\* client is configured with, and an engine that holds another key
GatewayAuth ==
  [privateKey |-> RsaPrivateKey(2), publicKey |-> RsaPublicKey(2)]

OtherAuth == [privateKey |-> RsaPrivateKey(1), publicKey |-> RsaPublicKey(1)]

\* the configurations of the clients that call the gateway: with the second
\* merchant key no payload can be signed, and the second URL does not parse
RequestConfigs ==
  [ AppID : { Chars("app") },
    GatewayURL : { Chars("https://gw"), <<"g", "w", "\n">> },
    MerchantPrivateKey : { PemPkcs8(1), RawPkcs1(3) },
    GatewayPublicKey : { PemPkix(2) },
    Timeout : {0},
    Logger : {"nil"} ]

\* what New returns for each of them
NewClients == [config \in RequestConfigs |-> New(config)]

\* the requests handed to an operation
Requests(op) ==
  IF op = "HostedCheckout" THEN
    { [Zero("CheckoutRequest") EXCEPT !.MerchantOrderNo = Chars("o<1>"),
                                      !.OrderAmount = amount,
                                      !.Description = description] :
        amount \in {Float(100), NaN}, description \in {Chars("tea")} }
  ELSE IF op = "QueryToken" THEN
    { [Zero("QueryTokenRequest") EXCEPT !.Token = Chars("tok")] }
  ELSE IF op = "TokenizedPay" THEN
    { [Zero("TokenizedPayRequest") EXCEPT !.Token = Chars("tok"),
                                          !.OrderAmount = Float(5)] }
  ELSE { [Zero("DebitCheckRequest") EXCEPT !.BankCode = Chars("b\"1")] }

\* The bodies of the responses.  An envelope is written from what it says:
\* whether it has a success member and what that holds, whether it has an
\* error member and what message that carries, and what its data member is
Envelopes ==
  [ success : {"absent", "true", "false"},
    message : {"absent", "empty", "bad"},
    data : {"absent", "null", "good", "wrong", "text"} ]

\* a data member that holds what every type of response takes
GoodData ==
  Chars("{\"pay_url\":\"https://pay\",\"token_status\":\"active\",")
  \o Chars("\"token_info\":{\"card_number\":\"4111\",\"card_type\":\"visa\"},")
  \o Chars("\"transaction_id\":\"T1\",\"mandate_status\":\"on\"}")

\* a data member whose members are numbers
WrongData ==
  Chars("{\"pay_url\":7,\"token_status\":7,\"transaction_id\":7,")
  \o Chars("\"mandate_status\":7}")

EnvelopeText(e) ==
  LET success == IF e.success = "absent" THEN <<>>
                 ELSE << Chars("\"success\":") \o Chars(e.success) >>
      error == IF e.message = "absent" THEN <<>>
               ELSE IF e.message = "empty"
               THEN << Chars("\"error\":{\"code\":\"E1\",\"message\":\"\"}") >>
               ELSE << Chars("\"error\":{\"code\":\"E1\",\"message\":\"bad\"}") >>
      data == IF e.data = "absent" THEN <<>>
              ELSE << Chars("\"data\":")
                      \o (IF e.data = "null" THEN Chars("null")
                          ELSE IF e.data = "good" THEN GoodData
                          ELSE IF e.data = "wrong" THEN WrongData
                          ELSE Chars("\"text\"")) >>
  IN  <<"{">> \o JoinComma(success \o data \o error) \o <<"}">>

\* bodies that are no envelope, or an envelope with a member of its own kind
OtherBodies ==
  { <<>>,
    Chars("Bad Gateway"),
    Chars("[1]"),
    Chars("null"),
    Chars("{\"success\":\"yes\",\"pay_url\":\"https://direct\"}"),
    Chars("{\"success\":\"no\",\"token_info\":\"none\",\"token_status\":\"x\"}"),
    Chars(" {\"success\":true, \"data\":{\"pay_url\":\"a\\u003cb>\"}}\n"),
    Chars("{\"error\":\"bad\"}") }

Bodies == { EnvelopeText(e) : e \in Envelopes } \cup OtherBodies

Statuses == {200, 399, 400, 500}

\* the signatures the gateway sends with a body: none, its own, or one made
\* with another key
ResponseSignatures ==
  [body \in Bodies |->
     { <<>>, Sign(GatewayAuth, body, 0).out, Sign(OtherAuth, body, 0).out }]

\* the methods of makeRequest called with no request and no response
Methods == { Chars("POST"), Chars("GET") }

-----------------------------------------------------------------------------
(* The state machine.  pc is "new" before construction, "ready" once       *)
(* NewRSAAuth has returned an engine and "failed" once it has returned an  *)
(* error; auth is the RSAAuth value it returned.  call is the call that    *)
(* has just returned, with its arguments and results, and NoCall between   *)
(* calls; signLog remembers results of Sign.  client is the Client value    *)
(* New has returned; built is the engine as NewRSAAuth returned it;         *)
(* inflight holds, for each of the concurrent callers of one engine, the    *)
(* call the caller is in; and http is the exchange of the client with the   *)
(* gateway.                                                                 *)

NoCall ==
  [op |-> "none", priv |-> <<>>, pub |-> <<>>, data |-> <<>>, sig |-> <<>>,
   params |-> EmptyMap, key |-> NoKey, config |-> ZeroConfig,
   out |-> <<>>, err |-> Nil]

\* the callers of one engine
Callers == 1..NumCallers

\* a caller between two calls
Idle == [phase |-> "idle", call |-> NoCall]

\* the calls of the concurrent callers, some of which fail
SharedCalls ==
  LET first == [privateKey |-> RsaPrivateKey(1), publicKey |-> RsaPublicKey(1)]
      signed == Sign(first, <<"a">>, 0).out
      sealed == Encrypt(first, <<65>>, 2).out
  IN  << [NoCall EXCEPT !.op = "Sign", !.data = <<>>],
         [NoCall EXCEPT !.op = "Sign", !.data = <<"a">>],
         [NoCall EXCEPT !.op = "Verify", !.data = <<"a">>, !.sig = signed],
         [NoCall EXCEPT !.op = "Verify", !.data = <<"b">>, !.sig = signed],
         [NoCall EXCEPT !.op = "Verify", !.data = <<"a">>,
                        !.sig = <<"!", "!", "!", "!">>],
         [NoCall EXCEPT !.op = "Encrypt", !.data = <<65>>],
         [NoCall EXCEPT !.op = "Encrypt", !.data = <<65, 65, 65>>],
         [NoCall EXCEPT !.op = "Decrypt", !.sig = sealed],
         [NoCall EXCEPT !.op = "Decrypt", !.sig = <<"!", "!", "!", "!">>],
         [NoCall EXCEPT !.op = "SignParameters",
                        !.params = [ k \in { <<"a">>, KeySign } |->
                                       StringValue(<<"1">>) ]] >>

\* The exchange of the client with the gateway: phase is "idle" between
\* operations, "sent" while the request is with the transport and
\* "returned" once the operation has returned; op is the operation, with the
\* request it was handed, req is the request handed to the transport, resp
\* the response of the gateway, and response and err are what the operation
\* has returned
NoResponse == [StatusCode |-> 0, Body |-> <<>>, Signature |-> <<>>]

NoExchange ==
  [phase |-> "idle", op |-> "none", request |-> NilInterface,
   req |-> NoRequest, resp |-> NoResponse, response |-> NilInterface.v,
   err |-> NoError]

Init ==
  /\ pc = "new"
  /\ auth = ZeroAuth
  /\ call = NoCall
  /\ signLog = {}
  /\ client = ZeroClient
  /\ built = ZeroAuth
  /\ inflight = [c \in Callers |-> Idle]
  /\ http = NoExchange

DoNewRSAAuth(privateKeyPEM, publicKeyPEM) ==
  /\ pc = "new" /\ call = NoCall
  /\ \E r \in {NewRSAAuth(privateKeyPEM, publicKeyPEM)} :
       /\ auth' = r.auth
       /\ built' = r.auth
       /\ pc' = IF r.err = Nil THEN "ready" ELSE "failed"
       /\ call' = [NoCall EXCEPT !.op = "NewRSAAuth", !.priv = privateKeyPEM,
                                 !.pub = publicKeyPEM, !.err = r.err]

DoSign(data, random) ==
  /\ pc = "ready" /\ call = NoCall
  /\ \E r \in {Sign(auth, data, random)} :
       /\ call' = [NoCall EXCEPT !.op = "Sign", !.data = data,
                                 !.out = r.out, !.err = r.err]
       /\ UNCHANGED <<pc, auth, built>>

DoVerify(data, signature) ==
  /\ pc = "ready" /\ call = NoCall
  /\ call' = [NoCall EXCEPT !.op = "Verify", !.data = data, !.sig = signature,
                            !.err = Verify(auth, data, signature)]
  /\ UNCHANGED <<pc, auth, built>>

DoEncrypt(data, random) ==
  /\ pc = "ready" /\ call = NoCall
  /\ \E r \in {Encrypt(auth, data, random)} :
       /\ call' = [NoCall EXCEPT !.op = "Encrypt", !.data = data,
                                 !.out = r.out, !.err = r.err]
       /\ UNCHANGED <<pc, auth, built>>

DoDecrypt(encryptedData, random) ==
  /\ pc = "ready" /\ call = NoCall
  /\ \E r \in {Decrypt(auth, encryptedData, random)} :
       /\ call' = [NoCall EXCEPT !.op = "Decrypt", !.sig = encryptedData,
                                 !.out = r.out, !.err = r.err]
       /\ UNCHANGED <<pc, auth, built>>

DoSignParameters(params, random) ==
  /\ pc = "ready" /\ call = NoCall
  /\ \E order1 \in Orders(DOMAIN params) :
       \E order2 \in Orders(DOMAIN filterParameters(params, order1)) :
         LET r == SignParameters(auth, params, order1, order2, random)
         IN  call' = [NoCall EXCEPT !.op = "SignParameters", !.params = params,
                                    !.out = r.out, !.err = r.err]
  /\ UNCHANGED <<pc, auth, built>>

DoParsePrivateKey(privateKeyData) ==
  /\ pc = "new" /\ call = NoCall
  /\ \E r \in {parsePrivateKey(privateKeyData)} :
       /\ call' = [NoCall EXCEPT !.op = "parsePrivateKey",
                                 !.priv = privateKeyData,
                                 !.key = r.key, !.err = r.err]
       /\ UNCHANGED <<pc, auth, built>>

DoParsePublicKey(publicKeyData) ==
  /\ pc = "new" /\ call = NoCall
  /\ \E r \in {parsePublicKey(publicKeyData)} :
       /\ call' = [NoCall EXCEPT !.op = "parsePublicKey",
                                 !.pub = publicKeyData,
                                 !.key = r.key, !.err = r.err]
       /\ UNCHANGED <<pc, auth, built>>

\* the caller takes the result and is free to call again
Return ==
  /\ call # NoCall
  /\ call' = NoCall
  /\ UNCHANGED <<pc, auth, signLog, client, built, inflight, http>>

\* The engine: construction, then calls in any order
Construct ==
  \E privateKeyPEM \in EngineBlobs, publicKeyPEM \in EngineBlobs :
    DoNewRSAAuth(privateKeyPEM, publicKeyPEM) /\ UNCHANGED <<signLog, client, inflight, http>>

CallSign ==
  \E data \in Payloads, random \in Randoms :
    DoSign(data, random) /\ UNCHANGED <<signLog, client, inflight, http>>

CallVerify ==
  \E data \in Payloads, signature \in SignatureStrings :
    DoVerify(data, signature) /\ UNCHANGED <<signLog, client, inflight, http>>

CallSignParameters ==
  \E params \in ParamMaps, random \in Randoms :
    DoSignParameters(params, random) /\ UNCHANGED <<signLog, client, inflight, http>>

CallEncrypt ==
  \E data \in Plaintexts, random \in Randoms :
    DoEncrypt(data, random) /\ UNCHANGED <<signLog, client, inflight, http>>

CallDecrypt ==
  \E encryptedData \in Ciphertexts, random \in Randoms :
    DoDecrypt(encryptedData, random) /\ UNCHANGED <<signLog, client, inflight, http>>

Next ==
  \/ Construct \/ CallSign \/ CallVerify \/ CallSignParameters
  \/ CallEncrypt \/ CallDecrypt \/ Return

Spec == Init /\ [][Next]_vars

\* The client: New, once
NewReturned(config, r) ==
  /\ client' = r.client
  /\ auth' = r.client.auth
  /\ built' = r.client.auth
  /\ pc' = IF r.err = Nil THEN "ready" ELSE "failed"
  /\ call' = [NoCall EXCEPT !.op = "New", !.config = config, !.err = r.err]

DoNew(config) ==
  /\ pc = "new" /\ call = NoCall
  /\ \E r \in {New(config)} : NewReturned(config, r)

NewClient ==
  \E config \in Configs : DoNew(config) /\ UNCHANGED <<signLog, inflight, http>>

NextClient == NewClient \/ Return

SpecClient == Init /\ [][NextClient]_vars

\* One engine and its concurrent callers.  A method has a value receiver and
\* works on the keys the engine points to; a caller is in a call from Invoke
\* to Complete, and holds the result from Complete to Take.
ConstructShared ==
  \E privateKeyPEM \in SharedPrivate, publicKeyPEM \in SharedPublic :
    DoNewRSAAuth(privateKeyPEM, publicKeyPEM)
    /\ UNCHANGED <<signLog, client, inflight, http>>

\* the method of the call, run on engine r
Perform(r, request, random, order1, order2) ==
  IF request.op = "Sign" THEN Sign(r, request.data, random)
  ELSE IF request.op = "Verify"
  THEN [out |-> <<>>, err |-> Verify(r, request.data, request.sig)]
  ELSE IF request.op = "Encrypt" THEN Encrypt(r, request.data, random)
  ELSE IF request.op = "Decrypt" THEN Decrypt(r, request.sig, random)
  ELSE SignParameters(r, request.params, order1, order2, random)

Invoke(c) ==
  /\ pc = "ready" /\ call = NoCall
  /\ inflight[c].phase = "idle"
  /\ \E i \in 1..Len(SharedCalls) :
       inflight' = [inflight EXCEPT ![c] = [phase |-> "called",
                                            call |-> SharedCalls[i]]]
  /\ UNCHANGED <<pc, auth, call, signLog, client, built, http>>

\* a call as it would complete if a method that fails dropped the keys
Complete_DropsKeysOnFailure(c) ==
  LET request == inflight[c].call
  IN  /\ inflight[c].phase = "called"
      /\ \E random \in Randoms :
           \E order1 \in Orders(DOMAIN request.params) :
             \E order2 \in Orders(DOMAIN filterParameters(request.params,
                                                          order1)) :
               LET r == Perform(auth, request, random, order1, order2)
               IN  /\ inflight' =
                        [inflight EXCEPT ![c] =
                           [phase |-> "done",
                            call |-> [request EXCEPT !.out = r.out,
                                                     !.err = r.err]]]
                   /\ auth' = IF r.err # Nil THEN ZeroAuth ELSE auth
      /\ UNCHANGED <<pc, call, signLog, client, built, http>>

Complete(c) ==
  LET request == inflight[c].call
  IN  /\ inflight[c].phase = "called"
      /\ \E random \in Randoms :
           \E order1 \in Orders(DOMAIN request.params) :
             \E order2 \in Orders(DOMAIN filterParameters(request.params,
                                                          order1)) :
               LET r == Perform(auth, request, random, order1, order2)
               IN  inflight' =
                     [inflight EXCEPT ![c] =
                        [phase |-> "done",
                         call |-> [request EXCEPT !.out = r.out,
                                                  !.err = r.err]]]
      /\ UNCHANGED <<pc, auth, call, signLog, client, built, http>>

Take(c) ==
  /\ inflight[c].phase = "done"
  /\ inflight' = [inflight EXCEPT ![c] = Idle]
  /\ UNCHANGED <<pc, auth, call, signLog, client, built, http>>

CallerInvokes == \E c \in Callers : Invoke(c)

CallerCompletes == \E c \in Callers : Complete(c)

CallerTakes == \E c \in Callers : Take(c)

NextConcurrent ==
  ConstructShared \/ Return \/ CallerInvokes \/ CallerCompletes \/ CallerTakes

SpecConcurrent == Init /\ [][NextConcurrent]_vars

\* The key loader alone
LoadPrivateKey ==
  \E privateKeyData \in LoaderBlobs :
    DoParsePrivateKey(privateKeyData) /\ UNCHANGED <<signLog, client, inflight, http>>

LoadPublicKey ==
  \E publicKeyData \in LoaderBlobs :
    DoParsePublicKey(publicKeyData) /\ UNCHANGED <<signLog, client, inflight, http>>

NextLoader == LoadPrivateKey \/ LoadPublicKey \/ Return

SpecLoader == Init /\ [][NextLoader]_vars

\* Signing watched: signLog holds the result of one earlier Sign call, chosen
\* freely among the calls, and counts the calls on its payload up to MaxLog
SignWatched ==
  \E data \in Payloads, random \in Randoms :
    /\ signLog = {}
    /\ DoSign(data, random)
    /\ signLog' = { [data |-> data, out |-> call'.out, err |-> call'.err,
                     calls |-> 1] }
    /\ UNCHANGED <<client, inflight, http>>

SignLogged ==
  \E data \in Payloads, random \in Randoms :
    /\ DoSign(data, random)
    /\ signLog' = { IF x.data = data /\ x.calls < MaxLog
                    THEN [x EXCEPT !.calls = x.calls + 1] ELSE x : x \in signLog }
    /\ UNCHANGED <<client, inflight, http>>

\* Verify called on the watched signature, between the calls of Sign
VerifyWatched ==
  \E data \in Payloads, x \in signLog :
    DoVerify(data, x.out) /\ UNCHANGED <<signLog, client, inflight, http>>

NextSign == Construct \/ SignWatched \/ SignLogged \/ VerifyWatched \/ Return

SpecSign == Init /\ [][NextSign]_vars

\* The client and the gateway.  New, once; then, when the caller has taken
\* the client, one operation at a time: the operation runs up to the
\* transport, the gateway answers or the transport fails, and the caller
\* takes what the operation has returned.
ConstructClient ==
  \E config \in RequestConfigs :
    \E r \in {NewClients[config]} :
      /\ pc = "new" /\ call = NoCall
      /\ NewReturned(config, r)
      /\ UNCHANGED <<signLog, inflight, http>>

\* op starts: makeRequest hands the request to the transport, or the
\* operation returns the error
Begin(op, method, path, request) ==
  /\ pc = "ready" /\ call = NoCall /\ http.phase = "idle"
  /\ \E random \in Randoms :
       \E r \in {makeRequestSend(client, method, path, request, random)} :
         http' = IF r.sent
                 THEN [NoExchange EXCEPT !.phase = "sent", !.op = op,
                                         !.request = request, !.req = r.req]
                 ELSE LET out == Returns(op, [response |->
                                                Pointee(ResponseType(op)),
                                              err |-> r.err])
                      IN  [NoExchange EXCEPT !.phase = "returned", !.op = op,
                                             !.request = request,
                                             !.response = out.response,
                                             !.err = out.err]
  /\ UNCHANGED <<pc, auth, call, signLog, client, built, inflight>>

CallOperation(op) ==
  \E req \in Requests(op) :
    Begin(op, Chars("POST"), Path(op), Interface(RequestType(op), req))

CallHostedCheckout == CallOperation("HostedCheckout")

CallQueryToken == CallOperation("QueryToken")

CallTokenizedPay == CallOperation("TokenizedPay")

CallDebitCheck == CallOperation("DebitCheck")

\* makeRequest with no request and no response
CallMakeRequest ==
  \E method \in Methods :
    Begin("makeRequest", method, Chars("/api/entry/status"), NilInterface)

\* the gateway answers, and the operation returns
DoRespond(StatusCode, respBody) ==
  /\ http.phase = "sent"
  /\ \E r \in {Returns(http.op,
                       makeRequestReceive(StatusCode, respBody,
                                          ResponseType(http.op)))} :
       \E signature \in ResponseSignatures[respBody] :
         http' = [http EXCEPT !.phase = "returned",
                              !.resp = [StatusCode |-> StatusCode,
                                        Body |-> respBody,
                                        Signature |-> signature],
                              !.response = r.response,
                              !.err = r.err]

Respond ==
  \E StatusCode \in Statuses, respBody \in Bodies :
    DoRespond(StatusCode, respBody)
    /\ UNCHANGED <<pc, auth, call, signLog, client, built, inflight>>

\* the transport fails, and the operation returns
DoFail(stage) ==
  /\ http.phase = "sent"
  /\ \E r \in {Returns(http.op,
                       makeRequestFails(stage, ResponseType(http.op)))} :
       http' = [http EXCEPT !.phase = "returned",
                            !.response = r.response,
                            !.err = r.err]

TransportFails ==
  \E stage \in {"Do", "ReadAll"} :
    DoFail(stage)
    /\ UNCHANGED <<pc, auth, call, signLog, client, built, inflight>>

\* the caller takes what the operation has returned
TakeResult ==
  /\ http.phase = "returned"
  /\ http' = NoExchange
  /\ UNCHANGED <<pc, auth, call, signLog, client, built, inflight>>

NextRequest ==
  \/ ConstructClient \/ Return
  \/ CallHostedCheckout \/ CallQueryToken \/ CallTokenizedPay
  \/ CallDebitCheck \/ CallMakeRequest
  \/ Respond \/ TransportFails \/ TakeResult

SpecRequest == Init /\ [][NextRequest]_vars

-----------------------------------------------------------------------------
(* The error kinds the messages of the loader stand for *)

ErrorKind(err) ==
  IF err = Nil THEN "none"
  ELSE IF err[1] \in {"private key is empty", "public key is empty"}
  THEN "EmptyKeyMaterial"
  ELSE IF err[1] \in {"failed to decode PEM block",
                      "failed to decode base64 private key",
                      "failed to decode base64 public key"}
  THEN "InvalidEncoding"
  ELSE IF err[1] \in {"failed to parse private key",
                      "failed to parse private key (tried both PKCS1 and PKCS8)",
                      "failed to parse public key",
                      "failed to parse X.509 public key"}
  THEN "UnsupportedKeyStructure"
  ELSE IF err[1] \in {"key is not an RSA private key",
                      "key is not an RSA public key"}
  THEN "WrongKeyAlgorithm"
  ELSE "other"

\* the two keys of the engine are the two halves of one key pair
Corresponds(r) ==
  \E i \in KeyIds :
    r.privateKey = RsaPrivateKey(i) /\ r.publicKey = RsaPublicKey(i)

\* the modulus of the private key is long enough for the encoded digest
HoldsDigest(r) == EmsaPkcs1v15(0, r.privateKey.size).ok

\* p and q have the same length and differ in exactly one byte
OneByteApart(p, q) ==
  /\ Len(p) = Len(q)
  /\ Cardinality({ i \in 1..Len(p) : p[i] # q[i] }) = 1

-----------------------------------------------------------------------------
(* C1 *)

\* C1: NewRSAAuth returns either no error and an engine with both keys, or an
\* error and an engine with neither key; never an engine with exactly one key.
C1_NoHalfInitializedEngine ==
  /\ (auth.privateKey = NoKey) = (auth.publicKey = NoKey)
  /\ call.op = "NewRSAAuth" =>
       \/ /\ call.err = Nil
          /\ auth.privateKey.alg = "RSA" /\ auth.publicKey.alg = "RSA"
       \/ call.err # Nil /\ auth = ZeroAuth

\* the private key loads, the public key does not
C1_Witness ==
  /\ call.op = "NewRSAAuth"
  /\ call.priv = PemPkcs8(1)
  /\ call.pub = GarbageText
  /\ parsePrivateKey(call.priv).err = Nil
  /\ call.err # Nil
  /\ auth = ZeroAuth

-----------------------------------------------------------------------------
(* C2 *)

\* the entries of a parameter map that are signed
KeptKeys(params) ==
  { k \in DOMAIN params :
      /\ k # KeySign
      /\ params[k].t # "nil"
      /\ Sprintf(params[k]) \notin {<<>>, <<"0">>} }

\* key=value of the given keys in ascending order of the keys, joined by "&"
RECURSIVE JoinAscending(_, _)
JoinAscending(params, keys) ==
  IF keys = {} THEN <<>>
  ELSE LET k == CHOOSE k \in keys : \A j \in keys \ {k} : Less(k, j)
       IN  QueryEscape(k) \o <<"=">> \o QueryEscape(Sprintf(params[k]))
           \o (IF keys = {k} THEN <<>>
               ELSE <<"&">> \o JoinAscending(params, keys \ {k}))

CanonicalString(params) == JoinAscending(params, KeptKeys(params))

\* C2: SignParameters(m) returns what Sign returns on the canonical string
\* of m; the example map canonicalizes to a=1&b=2, and a map whose entries
\* are all dropped is signed as the empty byte sequence.
C2_SignParametersSignsCanonicalString ==
  call.op = "SignParameters" =>
    /\ \A random \in Randoms :
         LET s == Sign(auth, CanonicalString(call.params), random)
         IN  call.out = s.out /\ call.err = s.err
    /\ call.params = ExampleParams =>
         LET s == Sign(auth, <<"a", "=", "1", "&", "b", "=", "2">>, 0)
         IN  call.out = s.out /\ call.err = s.err
    /\ KeptKeys(call.params) = {} =>
         LET s == Sign(auth, <<>>, 0)
         IN  call.out = s.out /\ call.err = s.err

C2_Witness ==
  /\ call.op = "SignParameters"
  /\ call.params = ExampleParams
  /\ call.err = Nil
  /\ call.out = Sign(auth, <<"a", "=", "1", "&", "b", "=", "2">>, 0).out

-----------------------------------------------------------------------------
(* C3 *)

\* C3: a Sign call on a payload that an earlier Sign call of the same engine
\* has signed returns what that call returned.
C3_SignIsDeterministic ==
  call.op = "Sign" =>
    \A x \in signLog :
      x.data = call.data => x.out = call.out /\ x.err = call.err

\* a second call on the watched payload, with a signature returned
C3_Witness ==
  /\ call.op = "Sign"
  /\ call.err = Nil
  /\ call.out # <<>>
  /\ \E x \in signLog : x.data = call.data /\ x.calls >= 2

-----------------------------------------------------------------------------
(* C4 *)

\* C4 as stated: on an engine built from a key pair, Sign succeeds on every
\* payload and Verify accepts the string it returns.
C4_RoundTripForEveryKeyPair ==
  /\ call.op = "Sign" /\ Corresponds(auth) =>
       call.err = Nil /\ Verify(auth, call.data, call.out) = Nil
  /\ call.op = "Verify" /\ Corresponds(auth)
       /\ call.sig = Sign(auth, call.data, 0).out => call.err = Nil

\* C4 amended: on an engine built from a key pair whose modulus is long
\* enough for the encoded SHA-256 digest, Sign succeeds on every payload, the
\* string it returns is valid base64 and Verify accepts it.
C4_RoundTrip ==
  /\ call.op = "Sign" /\ Corresponds(auth) /\ HoldsDigest(auth) =>
       /\ call.err = Nil
       /\ DecodeString(call.out).ok
       /\ Verify(auth, call.data, call.out) = Nil
  /\ call.op = "Verify" /\ Corresponds(auth) /\ HoldsDigest(auth)
       /\ (\E random \in Randoms :
             call.sig = Sign(auth, call.data, random).out) => call.err = Nil

\* the signature of the empty payload is verified
C4_Witness ==
  /\ call.op = "Verify"
  /\ Corresponds(auth) /\ HoldsDigest(auth)
  /\ call.data = <<>>
  /\ call.sig = Sign(auth, <<>>, 0).out
  /\ call.err = Nil

-----------------------------------------------------------------------------
(* C5 *)

\* C5: Verify(p', Sign(p)) returns the verification-failed error when p'
\* differs from p in a single byte.
C5_TamperDetection ==
  call.op = "Verify" =>
    \A p \in Payloads :
      OneByteApart(p, call.data) /\ call.sig = Sign(auth, p, 0).out =>
        /\ call.err # Nil
        /\ call.err[1] = "signature verification failed"

C5_Witness ==
  /\ call.op = "Verify"
  /\ Corresponds(auth) /\ HoldsDigest(auth)
  /\ \E p \in Payloads :
       /\ OneByteApart(p, call.data)
       /\ call.sig = Sign(auth, p, 0).out
       /\ Verify(auth, p, call.sig) = Nil
  /\ call.err # Nil
  /\ call.err[1] = "signature verification failed"

-----------------------------------------------------------------------------
(* C6 *)

\* the bytes are the signature of the payload under the private key that
\* belongs to the public key
IsSignatureOf(pub, data, bytes) ==
  \E i \in KeyIds :
    /\ pub = RsaPublicKey(i)
    /\ SignPKCS1v15(0, RsaPrivateKey(i), Sum256(data)).ok
    /\ bytes = SignPKCS1v15(0, RsaPrivateKey(i), Sum256(data)).sig

\* C6: a signature string that is not base64 yields the decode error whatever
\* the payload is; one that decodes and is not the signature of the payload
\* yields the verification-failed error; the two errors differ.
C6_TwoFailureKinds ==
  call.op = "Verify" =>
    LET sig == DecodeString(call.sig)
    IN  /\ ~sig.ok =>
             call.err # Nil /\ call.err[1] = "failed to decode signature"
        /\ sig.ok /\ ~IsSignatureOf(auth.publicKey, call.data, sig.bytes) =>
             call.err # Nil /\ call.err[1] = "signature verification failed"
        /\ sig.ok /\ IsSignatureOf(auth.publicKey, call.data, sig.bytes) =>
             call.err = Nil

\* a string that is not base64, with a payload and an engine for which a
\* signature exists
C6_Witness ==
  /\ call.op = "Verify"
  /\ Corresponds(auth) /\ HoldsDigest(auth)
  /\ ~DecodeString(call.sig).ok
  /\ call.err # Nil
  /\ call.err[1] = "failed to decode signature"


-----------------------------------------------------------------------------
(* C7 *)

\* an engine that signs with the given private key
SignerWith(key) == [privateKey |-> key, publicKey |-> NoKey]

\* C7: each of the four encodings of an RSA private key loads, and the key
\* loaded from it signs every payload as the key loaded from any other of the
\* four encodings does.
C7_CrossEncodingEquivalence ==
  call.op = "parsePrivateKey" =>
    \A i \in KeyIds :
      call.priv \in PrivateEncodings(i) =>
        /\ call.err = Nil
        /\ call.key.alg = "RSA"
        /\ \A other \in PrivateEncodings(i) :
             LET loaded == parsePrivateKey(other)
             IN  /\ loaded.err = Nil
                 /\ \A p \in Payloads :
                      Sign(SignerWith(call.key), p, 0)
                        = Sign(SignerWith(loaded.key), p, 0)

\* a PKCS#1 key in a PEM container, which loads at the second attempt
C7_Witness ==
  /\ call.op = "parsePrivateKey"
  /\ call.priv = PemPkcs1(1)
  /\ call.err = Nil
  /\ Sign(SignerWith(call.key), <<"a">>, 0).err = Nil
  /\ Sign(SignerWith(call.key), <<"a">>, 0)
       = Sign(SignerWith(parsePrivateKey(RawPkcs8(1)).key), <<"a">>, 0)

-----------------------------------------------------------------------------
(* C8 *)

\* C8 as stated: a PKCS#8 private key or SubjectPublicKeyInfo public key of
\* any other algorithm yields the wrong-key-algorithm error on both paths.
C8_EveryOtherAlgorithmIsWrongKeyAlgorithm ==
  \A alg \in OtherAlgorithms :
    /\ call.op = "parsePrivateKey" /\ call.priv \in OtherPrivate(alg) =>
         ErrorKind(call.err) = "WrongKeyAlgorithm" /\ call.key = NoKey
    /\ call.op = "parsePublicKey" /\ call.pub \in OtherPublic(alg) =>
         ErrorKind(call.err) = "WrongKeyAlgorithm" /\ call.key = NoKey

\* C8 amended: a key of another algorithm that the x509 parser returns as a
\* key yields the wrong-key-algorithm error on both paths; a key of an
\* algorithm the parser does not know yields the unsupported-structure error;
\* neither yields a key.
C8_NonRsaRejection ==
  \A alg \in OtherAlgorithms :
    /\ call.op = "parsePrivateKey" /\ call.priv \in OtherPrivate(alg) =>
         /\ call.key = NoKey
         /\ ErrorKind(call.err) =
              IF ParsePKCS8PrivateKey(MarshalPKCS8PrivateKey(alg, 1)).ok
              THEN "WrongKeyAlgorithm" ELSE "UnsupportedKeyStructure"
    /\ call.op = "parsePublicKey" /\ call.pub \in OtherPublic(alg) =>
         /\ call.key = NoKey
         /\ ErrorKind(call.err) =
              IF ParsePKIXPublicKey(MarshalPKIXPublicKey(alg, 1)).ok
              THEN "WrongKeyAlgorithm" ELSE "UnsupportedKeyStructure"

\* an ECDSA private key as raw base64
C8_Witness ==
  /\ call.op = "parsePrivateKey"
  /\ call.priv = EncodeToString(MarshalPKCS8PrivateKey("ECDSA", 1))
  /\ call.err = <<"key is not an RSA private key">>
  /\ call.key = NoKey

-----------------------------------------------------------------------------
(* C9 *)

\* the text is not empty, does not start as PEM and is not base64
NeitherPemNorBase64(text) ==
  /\ text # <<>>
  /\ ~HasPemPrefix(TrimSpace(text))
  /\ ~DecodeString(TrimSpace(text)).ok

\* C9: parsePrivateKey fails on zero-length input with the empty-key error
\* and on text that is neither PEM nor base64 with the invalid-encoding or
\* unsupported-structure error; neither yields a key.
C9_EmptyAndGarbageRejected ==
  call.op = "parsePrivateKey" =>
    /\ call.priv = <<>> =>
         ErrorKind(call.err) = "EmptyKeyMaterial" /\ call.key = NoKey
    /\ NeitherPemNorBase64(call.priv) =>
         /\ ErrorKind(call.err) \in {"InvalidEncoding", "UnsupportedKeyStructure"}
         /\ call.key = NoKey

C9_Witness ==
  /\ call.op = "parsePrivateKey"
  /\ call.priv = GarbageText
  /\ NeitherPemNorBase64(call.priv)
  /\ ErrorKind(call.err) = "InvalidEncoding"

-----------------------------------------------------------------------------
(* C10 *)

\* C10: key material that consists of whitespace only fails with the
\* empty-key error, as zero-length key material does.
C10_WhitespaceOnlyIsEmpty ==
  /\ call.op = "parsePrivateKey" /\ TrimSpace(call.priv) = <<>> =>
       ErrorKind(call.err) = "EmptyKeyMaterial"
  /\ call.op = "parsePublicKey" /\ TrimSpace(call.pub) = <<>> =>
       ErrorKind(call.err) = "EmptyKeyMaterial"

-----------------------------------------------------------------------------
(* C11 *)

\* the failure condition key material is in, judged on the material itself:
\* which is "private" or "public"
FailureCondition(which, data) ==
  LET text == TrimSpace(data)
      container == IF HasPemPrefix(text) THEN PemDecode(text)
                   ELSE DecodeString(text)
      parsed == IF which = "private"
                THEN { ParsePKCS8PrivateKey(container.bytes),
                       ParsePKCS1PrivateKey(container.bytes) }
                ELSE { ParsePKIXPublicKey(container.bytes) }
  IN  IF data = <<>> THEN "empty"
      ELSE IF ~container.ok THEN "undecodable container"
      ELSE IF \A x \in parsed : ~x.ok THEN "no scheme parses"
      ELSE IF \E x \in parsed : x.ok /\ x.key.alg # "RSA" THEN "not an RSA key"
      ELSE "loads"

KindOfCondition(condition) ==
  IF condition = "empty" THEN "EmptyKeyMaterial"
  ELSE IF condition = "undecodable container" THEN "InvalidEncoding"
  ELSE IF condition = "no scheme parses" THEN "UnsupportedKeyStructure"
  ELSE IF condition = "not an RSA key" THEN "WrongKeyAlgorithm"
  ELSE "none"

\* key material that starts with its first character (no leading whitespace)
StartsAtOnce(data) == TrimLeft(data) = data

-----------------------------------------------------------------------------
(* C12 *)

\* C12: on an engine built from a key pair, Encrypt succeeds on every
\* plaintext shorter than the modulus length less 11, and Decrypt returns for
\* the string Encrypt returned exactly the plaintext and no error, whatever
\* rand.Reader yields during either call.
C12_EnvelopeRoundTrip ==
  /\ call.op = "Encrypt" /\ Corresponds(auth)
       /\ Len(call.data) < auth.publicKey.size - 11 =>
         /\ call.err = Nil
         /\ \A random \in Randoms :
              Decrypt(auth, call.out, random) = [out |-> call.data, err |-> Nil]
  /\ call.op = "Decrypt" /\ Corresponds(auth) =>
       \A p \in Plaintexts, random \in Randoms :
         /\ Len(p) < auth.publicKey.size - 11
         /\ call.sig = Encrypt(auth, p, random).out
         => call.out = p /\ call.err = Nil

\* Decrypt has returned a plaintext with a zero byte from what Encrypt made
\* of it
C12_Witness ==
  /\ call.op = "Decrypt"
  /\ Corresponds(auth)
  /\ Len(<<0>>) < auth.publicKey.size - 11
  /\ call.sig = Encrypt(auth, <<0>>, 2).out
  /\ call.out = <<0>>
  /\ call.err = Nil

-----------------------------------------------------------------------------
(* C13 *)

\* C13: with k the modulus length of the public key, Encrypt returns the
\* empty string and the encryption-failure error on every plaintext longer
\* than k - 11; on every plaintext of at most k - 11 bytes it returns no error
\* and a ciphertext of k bytes that holds the whole plaintext.
C13_EncryptSizeBound ==
  call.op = "Encrypt" =>
    LET k == auth.publicKey.size
    IN  /\ Len(call.data) > k - 11 =>
             /\ call.out = <<>>
             /\ call.err # Nil
             /\ call.err[1] = "failed to encrypt data"
        /\ Len(call.data) <= k - 11 =>
             /\ call.err = Nil
             /\ DecodeString(call.out).ok
             /\ Len(DecodeString(call.out).bytes) = k
             /\ LET em == RsaOp(256 - auth.publicKey.e,
                                DecodeString(call.out).bytes)
                IN  SubSeq(em, k - Len(call.data) + 1, k) = call.data

\* a plaintext one byte longer than the bound is refused, and the plaintext
\* without that byte, which is as long as the bound, is encrypted
C13_Witness ==
  /\ call.op = "Encrypt"
  /\ auth.publicKey.size - 11 > 0
  /\ Len(call.data) = auth.publicKey.size - 11 + 1
  /\ call.out = <<>>
  /\ call.err = Wrap("failed to encrypt data", ErrMessageTooLong)
  /\ Encrypt(auth, SubSeq(call.data, 1, Len(call.data) - 1), 0).err = Nil

-----------------------------------------------------------------------------
(* C14 *)

\* a parameter map without its entry of the key sign
WithoutSign(params) == [k \in DOMAIN params \ {KeySign} |-> params[k]]

\* a parameter map without its entry of the given key
WithoutKey(params, key) == [k \in DOMAIN params \ {key} |-> params[k]]

\* the strings the code may make of a map, over the orders of its two loops
SignStrings(params) ==
  UNION { { createSignString(filterParameters(params, order1), order2) :
              order2 \in Orders(DOMAIN filterParameters(params, order1)) } :
          order1 \in Orders(DOMAIN params) }

\* C14: every parameter map that agrees with the signed one on all keys other
\* than sign gets the signature the signed one got; an entry of any other
\* key, Sign and signature among them, that holds a value to keep is part of
\* what is signed.
C14_SignSlotExcluded ==
  call.op = "SignParameters" =>
    /\ \A other \in ParamMaps :
         WithoutSign(other) = WithoutSign(call.params) =>
           \A order1 \in Orders(DOMAIN other) :
             \A order2 \in Orders(DOMAIN filterParameters(other, order1)) :
               \A random \in Randoms :
                 SignParameters(auth, other, order1, order2, random)
                   = [out |-> call.out, err |-> call.err]
    /\ \A k \in KeptKeys(call.params) :
         /\ k \in SignLikeKeys => k # KeySign
         /\ SignStrings(call.params)
              \cap SignStrings(WithoutKey(call.params, k)) = {}

\* a map with the three keys has been signed, and so has, with the same
\* result, the map that holds another value for sign
C14_Witness ==
  /\ call.op = "SignParameters"
  /\ DOMAIN call.params = SignLikeKeys
  /\ call.params[KeySign] = StringValue(<<"1">>)
  /\ call.err = Nil
  /\ LET other == [call.params EXCEPT ![KeySign] = StringValue(<<"2">>)]
     IN  \A order \in Orders(SignLikeKeys) :
           SignParameters(auth, other, order,
                          SelectSeq(order, LAMBDA k : k # KeySign), 0).out
             = call.out

-----------------------------------------------------------------------------
(* C15 *)

\* the default string form of the value is empty or "0"
EmptyOrZero(value) == Sprintf(value) \in { <<>>, <<"0">> }

\* C15 as stated: filterParameters drops, besides the entry of sign, exactly
\* the entries whose value has the default string form "" or "0", and keeps
\* every other entry with the default string form of its value.
C15_DropsExactlyEmptyAndZero ==
  call.op = "SignParameters" =>
    \A order \in Orders(DOMAIN call.params) :
      LET filtered == filterParameters(call.params, order)
      IN  /\ DOMAIN filtered =
               { k \in DOMAIN call.params \ {KeySign} :
                   ~EmptyOrZero(call.params[k]) }
          /\ \A k \in DOMAIN filtered : filtered[k] = Sprintf(call.params[k])

\* C15 amended: filterParameters drops, besides the entry of sign, exactly
\* the entries whose value is nil or has the default string form "" or "0":
\* the string "0", the integer 0 and the empty string are dropped, the
\* strings "00" and "0.0" and the value false are kept; every kept entry
\* holds the default string form of its value.
C15_ZeroValueQuirk ==
  call.op = "SignParameters" =>
    \A order \in Orders(DOMAIN call.params) :
      LET filtered == filterParameters(call.params, order)
      IN  /\ DOMAIN filtered =
               { k \in DOMAIN call.params \ {KeySign} :
                   call.params[k] # NilValue /\ ~EmptyOrZero(call.params[k]) }
          /\ \A k \in DOMAIN filtered : filtered[k] = Sprintf(call.params[k])
          /\ \A k \in DOMAIN call.params \ {KeySign} :
               /\ call.params[k] \in { StringValue(<<"0">>), IntValue(0),
                                       StringValue(<<>>) }
                    => k \notin DOMAIN filtered
               /\ call.params[k] = StringValue(<<"0", "0">>)
                    => k \in DOMAIN filtered /\ filtered[k] = <<"0", "0">>
               /\ call.params[k] = StringValue(<<"0", ".", "0">>)
                    => k \in DOMAIN filtered /\ filtered[k] = <<"0", ".", "0">>
               /\ call.params[k] = BoolValue(FALSE)
                    => /\ k \in DOMAIN filtered
                       /\ filtered[k] = <<"f", "a", "l", "s", "e">>

\* a map with the string "00" and the integer 0 has been signed as a=00
C15_Witness ==
  /\ call.op = "SignParameters"
  /\ DOMAIN call.params = { <<"a">>, <<"b">> }
  /\ call.params[<<"a">>] = StringValue(<<"0", "0">>)
  /\ call.params[<<"b">>] = IntValue(0)
  /\ call.err = Nil
  /\ call.out = Sign(auth, <<"a", "=", "0", "0">>, 0).out

-----------------------------------------------------------------------------
(* Reading a canonical string back *)

\* the pieces of s between the occurrences of sep
RECURSIVE SplitOn(_, _)
SplitOn(s, sep) ==
  LET at == { i \in 1..Len(s) : s[i] = sep }
      first == CHOOSE i \in at : \A j \in at : i <= j
  IN  IF at = {} THEN <<s>>
      ELSE <<SubSeq(s, 1, first - 1)>>
           \o SplitOn(SubSeq(s, first + 1, Len(s)), sep)

HexValue(c) == (CHOOSE i \in 1..Len(HexDigits) : HexDigits[i] = c) - 1

IsHex(c) == \E i \in 1..Len(HexDigits) : HexDigits[i] = c

\* form decoding: + is a space, %XY the character of that number
RECURSIVE Unescape(_)
Unescape(s) ==
  IF s = <<>> THEN <<>>
  ELSE IF Head(s) = "+" THEN <<" ">> \o Unescape(Tail(s))
  ELSE IF Head(s) = "%" /\ Len(s) >= 3 /\ IsHex(s[2]) /\ IsHex(s[3])
  THEN <<CHOOSE c \in PrintableSet :
           Ord(c) = 16 * HexValue(s[2]) + HexValue(s[3])>>
       \o Unescape(SubSeq(s, 4, Len(s)))
  ELSE <<Head(s)>> \o Unescape(Tail(s))

\* the pairs of a canonical string, in their order
Pairs(str) ==
  IF str = <<>> THEN <<>>
  ELSE LET segments == SplitOn(str, "&")
       IN  [ i \in 1..Len(segments) |->
               LET parts == SplitOn(segments[i], "=")
               IN  [parts |-> Len(parts),
                    key |-> Unescape(parts[1]),
                    value |-> Unescape(parts[Len(parts)])] ]

\* how often c occurs in s
Count(s, c) == Cardinality({ i \in 1..Len(s) : s[i] = c })

-----------------------------------------------------------------------------
(* C16 *)

\* C16: whatever the orders of the two range loops, the canonical string of a
\* map is one string; its pairs are those of the surviving keys, in strictly
\* ascending byte order of the unescaped keys; and SignParameters returns the
\* same result for every order.
C16_SortedAndOrderIndependent ==
  call.op = "SignParameters" =>
    /\ Cardinality(SignStrings(call.params)) = 1
    /\ \A str \in SignStrings(call.params) :
         LET pairs == Pairs(str)
         IN  /\ { pairs[i].key : i \in 1..Len(pairs) } = KeptKeys(call.params)
             /\ \A i \in 1..(Len(pairs) - 1) :
                  Less(pairs[i].key, pairs[i + 1].key)
    /\ \A order1 \in Orders(DOMAIN call.params) :
         \A order2 \in Orders(DOMAIN filterParameters(call.params, order1)) :
           \A random \in Randoms :
             SignParameters(auth, call.params, order1, order2, random)
               = [out |-> call.out, err |-> call.err]

\* two keys whose order changes with escaping: "a " comes before "a!", while
\* "a+" comes after "a%21"
C16_Witness ==
  /\ call.op = "SignParameters"
  /\ call.params = [ k \in { <<"a", " ">>, <<"a", "!">> } |->
                       StringValue(<<"1">>) ]
  /\ call.err = Nil
  /\ call.out = Sign(auth, << "a", "+", "=", "1", "&",
                              "a", "%", "2", "1", "=", "1" >>, 0).out

-----------------------------------------------------------------------------
(* C17 *)

\* the entries of a map that are signed, with their string values
FilteredOf(params) == [ k \in KeptKeys(params) |-> Sprintf(params[k]) ]

\* the filtered map and the canonical string of every map of the model
CanonicalPairs ==
  { [filtered |-> FilteredOf(params), str |-> CanonicalString(params)] :
      params \in ParamMaps }

\* the number of spaces in the keys and values of a filtered map
RECURSIVE SpacesIn(_)
SpacesIn(filtered) ==
  IF DOMAIN filtered = {} THEN 0
  ELSE LET k == CHOOSE k \in DOMAIN filtered : TRUE
       IN  Count(k, " ") + Count(filtered[k], " ")
           + SpacesIn([j \in DOMAIN filtered \ {k} |-> filtered[j]])

\* C17: the canonical string is key=value pairs joined by "&", each key and
\* value escaped: it holds one "=" per pair and one "&" between two pairs and
\* no other, no space, a "+" only for a space and a "%" only before two
\* hexadecimal digits; read back it gives exactly the filtered map, and no
\* map with another filtered map has the same canonical string.
C17_EscapedAndUnambiguous ==
  call.op = "SignParameters" =>
    \A str \in SignStrings(call.params) :
      LET pairs == Pairs(str)
          filtered == FilteredOf(call.params)
          n == Cardinality(DOMAIN filtered)
      IN  /\ Len(pairs) = n
          /\ \A i \in 1..Len(pairs) : pairs[i].parts = 2
          /\ { <<pairs[i].key, pairs[i].value>> : i \in 1..Len(pairs) }
               = { <<k, filtered[k]>> : k \in DOMAIN filtered }
          /\ Count(str, "=") = n
          /\ Count(str, "&") = IF n = 0 THEN 0 ELSE n - 1
          /\ Count(str, " ") = 0
          /\ Count(str, "+") = SpacesIn(filtered)
          /\ \A i \in 1..Len(str) :
               str[i] = "%" =>
                 i + 2 <= Len(str) /\ IsHex(str[i + 1]) /\ IsHex(str[i + 2])
          /\ \A other \in CanonicalPairs :
               other.str = str => other.filtered = filtered

\* a value that reads like a second pair has been signed escaped
C17_Witness ==
  /\ call.op = "SignParameters"
  /\ call.params = [ k \in { <<"&">> } |->
                       StringValue(<<"1", "&", "b", "=", "2">>) ]
  /\ call.err = Nil
  /\ call.out = Sign(auth, << "%", "2", "6", "=", "1", "%", "2", "6", "b",
                              "%", "3", "D", "2" >>, 0).out

-----------------------------------------------------------------------------
(* C18 *)

\* the result in the call record is one the method returns on engine r
ReturnedBy(r, done) ==
  LET results == { Perform(r, done, random, order1, order2) :
                     random \in Randoms,
                     order1 \in Orders(DOMAIN done.params),
                     order2 \in Orders(KeptKeys(done.params)) }
      result == [out |-> done.out, err |-> done.err]
  IN  IF done.op = "Encrypt" THEN result \in results
      ELSE results = {result}

\* C18: while callers are in calls at the same time, succeeding or failing,
\* the keys of the engine are those NewRSAAuth returned, and every call of
\* Sign, Verify, SignParameters and Decrypt has returned the one result the
\* method returns on the engine as NewRSAAuth returned it (a call of Encrypt
\* one of the results Encrypt returns on it).
C18_KeysNeverChange ==
  pc = "ready" =>
    /\ auth = built
    /\ \A c \in Callers :
         inflight[c].phase = "done" => ReturnedBy(built, inflight[c].call)

\* one caller holds a failed result and another, at the same time, a
\* signature
C18_Witness ==
  /\ pc = "ready"
  /\ auth = built
  /\ \E c, d \in Callers :
       /\ inflight[c].phase = "done"
       /\ inflight[c].call.op = "Decrypt"
       /\ inflight[c].call.err # Nil
       /\ inflight[d].phase = "done"
       /\ inflight[d].call.op = "Sign"
       /\ inflight[d].call.err = Nil
       /\ inflight[d].call.out = Sign(built, inflight[d].call.data, 0).out

-----------------------------------------------------------------------------
(* C19 *)

\* C19: when the private key does not load, NewRSAAuth returns the error of
\* the private key, whether the public key loads or not; it returns the error
\* of the public key only when the private key has loaded; it returns no
\* error only when both have loaded.
C19_FirstFailurePropagated ==
  call.op = "NewRSAAuth" =>
    LET private == parsePrivateKey(call.priv)
        public == parsePublicKey(call.pub)
    IN  /\ private.err # Nil =>
             call.err = Wrap("failed to parse private key", private.err)
        /\ private.err = Nil /\ public.err # Nil =>
             call.err = Wrap("failed to parse public key", public.err)
        /\ private.err = Nil /\ public.err = Nil => call.err = Nil
        /\ call.err # Nil /\ call.err[1] = "failed to parse public key" =>
             private.err = Nil

\* neither key loads, and the two fail in different ways
C19_Witness ==
  /\ call.op = "NewRSAAuth"
  /\ call.priv = GarbageText
  /\ call.pub = <<>>
  /\ parsePublicKey(call.pub).err = <<"public key is empty">>
  /\ call.err = << "failed to parse private key",
                   "failed to decode base64 private key",
                   "illegal base64 data" >>

-----------------------------------------------------------------------------
(* C20 *)

\* the message for the first field that is missing, in the order AppID,
\* GatewayURL, MerchantPrivateKey, GatewayPublicKey; "" when none is missing
FirstMissing(config) ==
  IF config.AppID = <<>> THEN "app_id is required"
  ELSE IF config.GatewayURL = <<>> THEN "gateway_url is required"
  ELSE IF config.MerchantPrivateKey = <<>>
  THEN "merchant_private_key is required"
  ELSE IF config.GatewayPublicKey = <<>> THEN "gateway_public_key is required"
  ELSE ""

\* C20: when a required field is missing, New returns exactly the message of
\* the first missing field, not wrapped, whether the keys of the
\* configuration can be parsed or not, and the zero Client; when no field is
\* missing it returns none of the four messages.
C20_FieldValidationOrder ==
  call.op = "New" =>
    /\ FirstMissing(call.config) # "" =>
         call.err = <<FirstMissing(call.config)>> /\ client = ZeroClient
    /\ FirstMissing(call.config) = "" =>
         \/ call.err = Nil
         \/ call.err[1] = "failed to initialize RSA auth"

\* the two strings are missing and the keys are bytes that are no key
C20_Witness ==
  /\ call.op = "New"
  /\ call.config.AppID = <<>>
  /\ call.config.GatewayURL = <<>>
  /\ call.config.MerchantPrivateKey = DummyKey
  /\ call.config.GatewayPublicKey = DummyKey
  /\ NewRSAAuth(DummyKey, DummyKey).err # Nil
  /\ call.err = <<"app_id is required">>

-----------------------------------------------------------------------------
(* C21 *)

\* C21: when no field is missing and NewRSAAuth fails for the keys of the
\* configuration, New returns the error of NewRSAAuth wrapped in "failed to
\* initialize RSA auth" and the zero Client; and whenever New returns an
\* error, the Client it returns is the zero Client, whose engine has no key.
C21_KeyFailurePreventsClient ==
  /\ call.op = "New" =>
       LET keys == NewRSAAuth(call.config.MerchantPrivateKey,
                              call.config.GatewayPublicKey)
       IN  /\ FirstMissing(call.config) = "" /\ keys.err # Nil =>
                /\ call.err = Wrap("failed to initialize RSA auth", keys.err)
                /\ client = ZeroClient
           /\ call.err # Nil =>
                /\ client = ZeroClient
                /\ client.auth.privateKey = NoKey
                /\ client.auth.publicKey = NoKey
           /\ call.err = Nil =>
                /\ keys.err = Nil
                /\ client.auth = keys.auth
  /\ pc = "failed" => client = ZeroClient

\* every field is set, the private key loads and the public key does not
C21_Witness ==
  /\ call.op = "New"
  /\ FirstMissing(call.config) = ""
  /\ call.config.MerchantPrivateKey = PemPkcs8(1)
  /\ call.config.GatewayPublicKey = DummyKey
  /\ parsePrivateKey(call.config.MerchantPrivateKey).err = Nil
  /\ call.err = << "failed to initialize RSA auth",
                   "failed to parse public key",
                   "failed to decode base64 public key",
                   "illegal base64 data" >>
  /\ client = ZeroClient

-----------------------------------------------------------------------------
(* C24 *)

\* the two parsers of a private key in the order the path of the key
\* material tries them, run on the structure the container holds
AttemptsInOrder(data) ==
  LET text == TrimSpace(data)
      container == IF HasPemPrefix(text) THEN PemDecode(text)
                   ELSE DecodeString(text)
      pkcs8 == ParsePKCS8PrivateKey(container.bytes)
      pkcs1 == ParsePKCS1PrivateKey(container.bytes)
  IN  [decoded |-> container.ok,
       first |-> IF HasPemPrefix(text) THEN pkcs8 ELSE pkcs1,
       second |-> IF HasPemPrefix(text) THEN pkcs1 ELSE pkcs8,
       message |-> IF HasPemPrefix(text) THEN "failed to parse private key"
                   ELSE "failed to parse private key (tried both PKCS1 and PKCS8)"]

\* what the loader returns for a structure a parser has returned a key for
OutcomeOfParsed(parsed) ==
  IF parsed.key.alg = "RSA" THEN [key |-> parsed.key, err |-> Nil]
  ELSE [key |-> NoKey, err |-> <<"key is not an RSA private key">>]

-----------------------------------------------------------------------------
(* C25 *)

\* the structure is an RSA public key as bare PKCS#1
IsPkcs1PublicKey(der) == \E i \in KeyIds : der = MarshalPKCS1PublicKey(i)

-----------------------------------------------------------------------------
(* C26 *)

\* C26: key material with whitespace around it yields the key, or the error
\* kind, that the same material yields once trimmed, for private and public
\* keys and on both paths.  Stated for material that is not whitespace alone
\* (whitespace alone is the case of C10).
C26_WhitespaceNeverChangesOutcome ==
  /\ call.op = "parsePrivateKey" /\ TrimSpace(call.priv) # <<>> =>
       LET trimmed == parsePrivateKey(TrimSpace(call.priv))
       IN  /\ call.key = trimmed.key
           /\ ErrorKind(call.err) = ErrorKind(trimmed.err)
  /\ call.op = "parsePublicKey" /\ TrimSpace(call.pub) # <<>> =>
       LET trimmed == parsePublicKey(TrimSpace(call.pub))
       IN  /\ call.key = trimmed.key
           /\ ErrorKind(call.err) = ErrorKind(trimmed.err)

-----------------------------------------------------------------------------
(* C29 *)

\* C29 as stated: NewRSAAuth succeeds whenever each of the two keys loads,
\* whether the two correspond or not; on an engine whose keys do not
\* correspond Verify returns the verification-failed error for the string
\* Sign returns on the same payload; and Verify accepts that string exactly
\* on the engines whose keys correspond.
C29_RoundTripExactlyWhenKeysCorrespond ==
  /\ call.op = "NewRSAAuth" /\ parsePrivateKey(call.priv).err = Nil
       /\ parsePublicKey(call.pub).err = Nil =>
         /\ call.err = Nil
         /\ auth.privateKey = parsePrivateKey(call.priv).key
         /\ auth.publicKey = parsePublicKey(call.pub).key
  /\ call.op = "Verify" /\ call.sig = Sign(auth, call.data, 0).out =>
       /\ ~Corresponds(auth) =>
            call.err # Nil /\ call.err[1] = "signature verification failed"
       /\ call.err = Nil <=> Corresponds(auth)

\* C29 amended: as stated, except that Verify accepts the string Sign returns
\* exactly on the engines whose keys correspond and whose modulus is long
\* enough for the encoded SHA-256 digest; on an engine with a shorter modulus
\* Sign fails and Verify returns the verification-failed error for the empty
\* string it returns.
C29_NoCorrespondenceCheck ==
  /\ call.op = "NewRSAAuth" /\ parsePrivateKey(call.priv).err = Nil
       /\ parsePublicKey(call.pub).err = Nil =>
         /\ call.err = Nil
         /\ auth.privateKey = parsePrivateKey(call.priv).key
         /\ auth.publicKey = parsePublicKey(call.pub).key
  /\ call.op = "Verify" /\ call.sig = Sign(auth, call.data, 0).out =>
       /\ ~Corresponds(auth) \/ ~HoldsDigest(auth) =>
            call.err # Nil /\ call.err[1] = "signature verification failed"
       /\ call.err = Nil <=> Corresponds(auth) /\ HoldsDigest(auth)

\* an engine built from the private key of one pair and the public key of
\* another refuses its own signature
C29_Witness ==
  /\ call.op = "Verify"
  /\ auth = [privateKey |-> RsaPrivateKey(1), publicKey |-> RsaPublicKey(2)]
  /\ ~Corresponds(auth)
  /\ Sign(auth, call.data, 0).err = Nil
  /\ call.sig = Sign(auth, call.data, 0).out
  /\ call.err = << "signature verification failed",
                   "crypto/rsa: verification error" >>

-----------------------------------------------------------------------------
(* C30 *)

\* the text fmt.Sprintf gives for a nil value
NilText == <<"<", "n", "i", "l", ">">>

\* C30: for every entry of the signed map whose value is nil, the map without
\* this entry gets, for all orders of the two loops, the signature the signed
\* map got; no pair of a canonical string of the signed map has the key of a
\* nil entry; and a pair holds the text "<nil>" only for an entry whose value
\* is the string "<nil>".
C30_NilDroppedBeforeStringification ==
  call.op = "SignParameters" =>
    /\ \A k \in DOMAIN call.params :
         call.params[k] = NilValue =>
           LET other == WithoutKey(call.params, k)
           IN  /\ \A order1 \in Orders(DOMAIN other) :
                    \A order2 \in Orders(DOMAIN filterParameters(other, order1)) :
                      \A random \in Randoms :
                        SignParameters(auth, other, order1, order2, random)
                          = [out |-> call.out, err |-> call.err]
               /\ SignStrings(call.params) = SignStrings(other)
    /\ \A str \in SignStrings(call.params) :
         \A i \in 1..Len(Pairs(str)) :
           LET pair == Pairs(str)[i]
           IN  /\ pair.key \in DOMAIN call.params
               /\ call.params[pair.key] # NilValue
               /\ pair.value = NilText =>
                    call.params[pair.key] = StringValue(NilText)

\* a map with a nil entry and an entry that holds the string "<nil>" has been
\* signed as the map without the nil entry is signed
C30_Witness ==
  /\ call.op = "SignParameters"
  /\ DOMAIN call.params = { <<"a">>, <<"b">> }
  /\ call.params[<<"a">>] = NilValue
  /\ call.params[<<"b">>] = StringValue(NilText)
  /\ call.err = Nil
  /\ call.out = Sign(auth, <<"b", "=", "%", "3", "C", "n", "i", "l", "%", "3",
                             "E">>, 0).out

-----------------------------------------------------------------------------
(* C22 *)

\* the engine that holds the public key of the first merchant key
MerchantVerifier ==
  [privateKey |-> NoKey, publicKey |-> RsaPublicKey(1)]

\* C22: a request that has been handed to the transport with a body that is
\* not empty carries, from the moment it is handed over, an X-Signature
\* header that is what Sign returns for the bytes of that body, the body
\* being what json.Marshal makes of the request; a request with an empty
\* body carries no X-Signature header; and when Sign fails on the body, the
\* operation returns "failed to sign request" and no request has been
\* handed to the transport.
C22_RequestsAreSigned ==
  /\ http.phase # "idle" /\ http.request.type # "nil" =>
       LET marshalled == Marshal(http.request.v, http.request.type)
       IN  /\ http.req # NoRequest => http.req.Body = marshalled.bytes
           /\ /\ marshalled.err = Nil
              /\ \A i \in 1..Len(client.config.GatewayURL) :
                   client.config.GatewayURL[i] \notin ControlCharacters
              /\ Sign(client.auth, marshalled.bytes, 0).err # Nil
              => /\ http.req = NoRequest
                 /\ http.phase = "returned"
                 /\ http.resp = NoResponse
                 /\ http.err = Errorf("failed to sign request",
                                      Sign(client.auth, marshalled.bytes,
                                           0).err)
  /\ http.req # NoRequest =>
       /\ http.phase \in {"sent", "returned"}
       /\ Len(http.req.Body) > 0 =>
            /\ "X-Signature" \in DOMAIN http.req.Header
            /\ \A random \in Randoms :
                 Sign(client.auth, http.req.Body, random)
                   = [out |-> http.req.Header["X-Signature"], err |-> Nil]
            /\ client.auth.privateKey = RsaPrivateKey(1) =>
                 Verify(MerchantVerifier, http.req.Body,
                        http.req.Header["X-Signature"]) = Nil
       /\ Len(http.req.Body) = 0 =>
            /\ "X-Signature" \notin DOMAIN http.req.Header
            /\ http.request = NilInterface

\* a checkout request is with the transport, with its signature
C22_Witness ==
  /\ http.phase = "sent"
  /\ http.op = "HostedCheckout"
  /\ Len(http.req.Body) > 0
  /\ http.req.Body = Marshal(http.request.v, "CheckoutRequest").bytes
  /\ http.req.Header["X-Signature"]
       = Sign(client.auth, http.req.Body, 0).out
  /\ Verify(MerchantVerifier, http.req.Body, http.req.Header["X-Signature"])
       = Nil

-----------------------------------------------------------------------------
(* C23 *)

\* C23: an operation returns no error for a response of the gateway only when
\* the signature that came with the response verifies, by Verify on the
\* engine of the client, which holds the public key of the gateway, for the
\* body of the response.
C23_ResponsesAreVerified ==
  /\ http.phase = "returned"
  /\ http.resp # NoResponse
  /\ http.err = NoError
  => Verify(client.auth, http.resp.Body, http.resp.Signature) = Nil

-----------------------------------------------------------------------------
(* C27 *)

\* the APIError an envelope of the inputs carries when it has a message
BadError == [Code |-> Chars("E1"), Message |-> Chars("bad"), Details |-> <<>>]

\* the body is an envelope of the inputs whose error has a message
CarriesMessage(body) ==
  \E e \in Envelopes : EnvelopeText(e) = body /\ e.message = "bad"

\* C27: when the gateway has answered with a status of 400 or more, the
\* operation has returned an error and the zero value of its response; the
\* error is the APIError of the body when the body is an envelope whose error
\* has a message that is not empty, and otherwise the error that carries the
\* status and the body as it came; no member of the body is found in the
\* response.
C27_ErrorStatus ==
  /\ http.phase = "returned"
  /\ http.resp.StatusCode >= 400
  => /\ http.err # NoError
     /\ http.response = Pointee(ResponseType(http.op))
     /\ http.err = IF CarriesMessage(http.resp.Body)
                   THEN AsError(BadError)
                   ELSE HttpError(http.resp.StatusCode, http.resp.Body)

\* a checkout has been answered with status 400 and an envelope that says
\* success, holds a pay_url and carries an error with a message
C27_Witness ==
  /\ http.phase = "returned"
  /\ http.op = "HostedCheckout"
  /\ http.resp.StatusCode = 400
  /\ http.resp.Body = EnvelopeText([success |-> "true", message |-> "bad",
                                    data |-> "good"])
  /\ http.err.kind = "APIError"
  /\ http.err.api.Message = Chars("bad")
  /\ http.response = [PayURL |-> <<>>]

-----------------------------------------------------------------------------
(* C28 *)

\* what the good data member of the inputs holds for a type of response
GoodResponse(type) ==
  IF type = "CheckoutResponse" THEN [PayURL |-> Chars("https://pay")]
  ELSE IF type = "QueryTokenResponse"
  THEN [TokenStatus |-> Chars("active"),
        TokenInfo |-> [CardNumber |-> Chars("4111"), ExpiryDate |-> <<>>,
                       CardType |-> Chars("visa")]]
  ELSE IF type = "TokenizedPayResponse"
  THEN [TransactionID |-> Chars("T1"), TransactionStatus |-> <<>>]
  ELSE [MandateID |-> <<>>, MandateStatus |-> Chars("on")]

\* what an operation with a response of the type is to return for envelope e
\* of the inputs
ExpectedOfEnvelope(e, type) ==
  IF e.success # "true" /\ e.message = "bad"
  THEN [response |-> Zero(type), err |-> AsError(BadError)]
  ELSE IF e.data \in {"wrong", "text"}
  THEN [response |-> Zero(type),
        err |-> Errorf("failed to unmarshal data", ErrJsonType)]
  ELSE IF e.data = "good"
  THEN [response |-> GoodResponse(type), err |-> NoError]
  ELSE [response |-> Zero(type), err |-> NoError]

\* C28: when the gateway has answered an operation with a status below 400
\* and an envelope, the operation has returned an error exactly when the
\* envelope does not say success and its error has a message that is not
\* empty, the error being that APIError, or when its data does not decode
\* into the response; otherwise it has returned no error and the response
\* that the data holds, which is the zero response when the envelope has no
\* data; so an envelope that says failure with an empty message is a success.
C28_EnvelopeBelow400 ==
  /\ http.phase = "returned"
  /\ http.op \in Operations
  /\ http.resp # NoResponse
  /\ http.resp.StatusCode < 400
  => \A e \in Envelopes :
       EnvelopeText(e) = http.resp.Body =>
         /\ http.response = ExpectedOfEnvelope(e, ResponseType(http.op)).response
         /\ http.err = ExpectedOfEnvelope(e, ResponseType(http.op)).err
         /\ http.err # NoError <=>
              \/ e.success # "true" /\ e.message = "bad"
              \/ e.data \in {"wrong", "text"}

\* a checkout has been answered with status 200 and an envelope that says
\* failure, carries an error with an empty message and holds a pay_url: the
\* operation has returned the pay_url and no error
C28_Witness ==
  /\ http.phase = "returned"
  /\ http.op = "HostedCheckout"
  /\ http.resp.StatusCode = 200
  /\ http.resp.Body = EnvelopeText([success |-> "false", message |-> "empty",
                                    data |-> "good"])
  /\ http.err = NoError
  /\ http.response = [PayURL |-> Chars("https://pay")]

=============================================================================
